---- MODULE Spec2Model ----
(***************************************************************************)
(* Model of the FaceCanvas component (src/components/FaceCanvas.tsx, the   *)
(* live version at the end of the file): the file -> data URL -> image ->  *)
(* detection pipeline with its React effects, the detector set-up, and the *)
(* list of annotation markers with its handlers.                           *)
(*                                                                         *)
(* Conventions.                                                            *)
(*  - A state of the model is the component's state after a commit: every  *)
(*    action is one event handler or one asynchronous callback, followed   *)
(*    by the re-render it causes and by the effects whose dependencies     *)
(*    changed (clean-up first, then the body), repeated until no effect    *)
(*    queues a further state update.                                       *)
(*  - null is encoded per type: id 0 for an object (file, image element,   *)
(*    imageFit), 0 for the data URL and for the detector.                  *)
(*  - Stage and image sizes are in pixels.  Marker and landmark            *)
(*    coordinates are in units of 1/Sub pixel, so that the halves and      *)
(*    thirds the code computes are exact integers.                         *)
(*  - JavaScript arrays are sequences: landmarks[i] is At(landmarks, i),   *)
(*    the element at position i + 1.                                       *)
(***************************************************************************)
EXTENDS Integers, Sequences, FiniteSets, TLC

\* ------------------------------------------------------------------ bounds
\* The number of files the user selects, and the number of times the user
\* uses a handler of the markers (add, preset, drag, edit, refresh, snap,
\* remove).
MaxSelect == 2
MaxOps == 1
\* The number of markers of the lists that updatePointMeta and removePoint
\* are applied to.
MaxMarkers == 3
FitMax == 4
SideMax == 3
SampleMax == 3

\* --------------------------------------------------------------- constants
DEFAULT_STAGE_WIDTH == 800
DEFAULT_STAGE_HEIGHT == 800
SnapRadius == 12

Sub == 2 * 3

\* The image files the user can pick, by content.  Two files with the same
\* content give the same data URL.
Contents == {1, 2}

naturalWidth(c) == IF c = 1 THEN 400 ELSE 300
naturalHeight(c) == IF c = 1 THEN 300 ELSE 500

\* Math.round: the nearest integer, halves towards +infinity, of num / den
\* (den > 0).
Round(num, den) == (2 * num + den) \div (2 * den)

\* A fitImage with the comparison of the ratios reversed.
fitImage_cover(imageWidth, imageHeight, stageW, stageH) ==
  IF imageWidth * stageH < stageW * imageHeight
    THEN [width |-> stageW, height |-> Round(stageW * imageHeight, imageWidth)]
    ELSE [width |-> Round(stageH * imageWidth, imageHeight), height |-> stageH]

\* fitImage.  imgRatio > stageRatio is compared, and the quotients are
\* rounded, in exact arithmetic.
fitImage(imageWidth, imageHeight, stageW, stageH) ==
  IF imageWidth * stageH > stageW * imageHeight
    THEN [width |-> stageW, height |-> Round(stageW * imageHeight, imageWidth)]
    ELSE [width |-> Round(stageH * imageWidth, imageHeight), height |-> stageH]

\* ------------------------------------------------------------------ meshes
\* What the detector returns is outside the repository: a mesh is chosen by
\* the image it was computed on (seed) and its number of entries.
MeshLens == {0, 14, 468}

\* An array of landmarks is held as [seed, n, holes] and its entries are
\* computed on access: entry i is <<MeshX(seed, i), MeshY(seed, i)>> for
\* 0 <= i < n, and no landmark (an entry the code's tests "!lm" reject) for i
\* in holes.  All empty arrays are EmptyMesh.
MeshX(seed, i) == Sub * (100 + ((i * 7 + seed * 13) % 200))
MeshY(seed, i) == Sub * (100 + ((i * 11 + seed * 5) % 300))
EmptyMesh == [seed |-> 0, n |-> 0, holes |-> {}]
Mesh(seed, n) == IF n = 0 THEN EmptyMesh ELSE [seed |-> seed, n |-> n, holes |-> {}]
Holed(lms, H) == [lms EXCEPT !.holes = H \cap (0..(lms.n - 1))]

\* lms.length, the test "lm" (truthy) on lms[i], and lms[i].
Length(lms) == lms.n
Has(lms, i) == i >= 0 /\ i < lms.n /\ i \notin lms.holes
At(lms, i) == <<MeshX(lms.seed, i), MeshY(lms.seed, i)>>

\* A predicted face: each of the four fields the code looks at is either
\* absent or an array with the given number of entries.  The four arrays of
\* one face differ (pixel, normalised, 2-D and 3-D keypoints).
Absent == 0 - 1
Face(sm, m, kp, kp3) == [scaledMesh |-> sm, mesh |-> m, keypoints |-> kp, keypoints3D |-> kp3]
Faces ==
  { Face(468, Absent, Absent, Absent),
    Face(14, 468, Absent, Absent),
    Face(Absent, Absent, 468, 14),
    Face(Absent, Absent, Absent, Absent) }

\* An extraction that looks at mesh before scaledMesh.
MeshOfFace_prefersMesh(face, seed) ==
  IF face.mesh # Absent THEN Mesh(seed + 10, face.mesh)
  ELSE IF face.scaledMesh # Absent THEN Mesh(seed, face.scaledMesh)
  ELSE IF face.keypoints # Absent THEN Mesh(seed + 20, face.keypoints)
  ELSE IF face.keypoints3D # Absent THEN Mesh(seed + 30, face.keypoints3D)
  ELSE EmptyMesh

\* detectOnce, the extraction of the mesh from predictions[0]; seed is the
\* image the detector ran on.
MeshOfFace(face, seed) ==
  IF face.scaledMesh # Absent THEN Mesh(seed, face.scaledMesh)
  ELSE IF face.mesh # Absent THEN Mesh(seed + 10, face.mesh)
  ELSE IF face.keypoints # Absent THEN Mesh(seed + 20, face.keypoints)
  ELSE IF face.keypoints3D # Absent THEN Mesh(seed + 30, face.keypoints3D)
  ELSE EmptyMesh

\* What one estimateFaces call can do: throw, resolve to null/undefined, or
\* resolve to an array of faces.
Predictions ==
  {<<>>} \cup {<<f>> : f \in Faces}
    \cup {<<Face(14, Absent, Absent, Absent), Face(468, Absent, Absent, Absent)>>}
Outcomes ==
  {[kind |-> "throw", faces |-> <<>>], [kind |-> "null", faces |-> <<>>]}
    \cup {[kind |-> "faces", faces |-> p] : p \in Predictions}

\* ------------------------------------------------------------------- state
VARIABLES
  alive,      \* the component is mounted
  file,       \* useState file: [sel, content], sel = 0 is null; every
              \* selection is a new File object (sel)
  imageSrc,   \* useState imageSrc: the data URL (the content), 0 is null
  imgEl,      \* useState imgEl: [id, content], id = 0 is null; id is the
              \* Image object (the decode that made it)
  imageFit,   \* useState imageFit: [id, width, height], id = 0 is null; id
              \* is the object identity (a new object per onload)
  stageSize,  \* useState stageSize: [width, height]
  landmarks,  \* useState landmarks
  detector,   \* useState detector: 0 is null
  points,     \* useState points: sequence of [id, x, y, product, dose]
  reads,      \* FileReaders whose readAsDataURL has not called back
  decodes,    \* Images whose load has not called back, with the "mounted"
              \* flag of the effect that made them
  runs,       \* detectOnce calls awaiting estimateFaces, with what their
              \* closure captured and their "cancelled" flag
  setup,      \* the detector set-up effect: [pc, mounted, created, disposals]
              \* and its history: the calls that threw, the creation calls
              \* made, the setDetector calls and those made after unmount
  nextId,     \* number of ids nanoid() has returned
  nDecode,    \* number of Image objects made
  nRun,       \* number of detectOnce calls made
  ops,        \* number of times a handler of the markers was used
  toggles,    \* useState showMidline, showEyeLine, showThirds, showLandmarks,
              \* showMuscles, showVessels
  ev          \* the handler or callback that ran last, and what it did

vars == <<alive, file, imageSrc, imgEl, imageFit, stageSize, landmarks, detector,
          points, reads, decodes, runs, setup, nextId, nDecode, nRun, ops, toggles, ev>>

NoFile == [sel |-> 0, content |-> 0]
NoImg == [id |-> 0, content |-> 0]
NoFit == [id |-> 0, width |-> 0, height |-> 0]
DefaultStage == [width |-> DEFAULT_STAGE_WIDTH, height |-> DEFAULT_STAGE_HEIGHT]
DefaultToggles ==
  [showMidline |-> TRUE, showEyeLine |-> TRUE, showThirds |-> TRUE,
   showLandmarks |-> TRUE, showMuscles |-> TRUE, showVessels |-> FALSE]

\* The part of the state that handlers and effects work on, as one record.
Cur ==
  [file |-> file, imageSrc |-> imageSrc, imgEl |-> imgEl, imageFit |-> imageFit,
   stageSize |-> stageSize, landmarks |-> landmarks, detector |-> detector,
   points |-> points, reads |-> reads, decodes |-> decodes, runs |-> runs,
   nDecode |-> nDecode, nRun |-> nRun]

Install(s) ==
  /\ file' = s.file
  /\ imageSrc' = s.imageSrc
  /\ imgEl' = s.imgEl
  /\ imageFit' = s.imageFit
  /\ stageSize' = s.stageSize
  /\ landmarks' = s.landmarks
  /\ detector' = s.detector
  /\ points' = s.points
  /\ reads' = s.reads
  /\ decodes' = s.decodes
  /\ runs' = s.runs
  /\ nDecode' = s.nDecode
  /\ nRun' = s.nRun

NoRes == [kind |-> "none", faces |-> <<>>]
\* ev for a step of kind op; the fields a step does not use keep these values.
\* For a resolved estimateFaces call: the run, whether it was cancelled, the
\* kind of the outcome, whether the outcome held a face with a non-empty
\* mesh, whether a further call was made (retried), whether the run went on
\* past its cancellation check (applied) and then the predictions (res), and
\* which of the three call forms it was (id).
\* For a call of updatePointMeta: the id and the data it was given.
Ev(op) ==
  [op |-> op, id |-> 0, run |-> 0, cancelled |-> FALSE, kind |-> "", withMesh |-> FALSE,
   res |-> NoRes, retried |-> FALSE, applied |-> FALSE, log |-> "", data |-> <<>>]

\* ----------------------------------------------------------------- effects
\* An effect is given p, the state of the previous commit (its dependencies
\* then), c, the state of the render being committed (what its closure
\* sees), and acc, the state being built: the asynchronous work it starts or
\* cancels and the state updates it queues.

\* useEffect [file]: file -> data URL.
FileReadEffect(p, c, acc) ==
  IF c.file = p.file THEN acc
  ELSE IF c.file.sel = 0 THEN [acc EXCEPT !.imageSrc = 0]
  ELSE [acc EXCEPT !.reads = @ \cup {[id |-> c.file.sel, content |-> c.file.content]}]

\* An image-load effect that leaves the stage size alone when the data URL
\* is null.
ImageLoadEffect_keepsStage(p, c, acc) ==
  IF c.imageSrc = p.imageSrc THEN acc
  ELSE
    LET stale == {[d EXCEPT !.mounted = FALSE] : d \in acc.decodes}
    IN IF c.imageSrc = 0
         THEN [acc EXCEPT !.decodes = stale, !.imgEl = NoImg, !.imageFit = NoFit]
         ELSE [acc EXCEPT
                 !.decodes = stale \cup
                   {[id |-> acc.nDecode + 1, src |-> c.imageSrc, mounted |-> TRUE]},
                 !.nDecode = @ + 1]

\* useEffect [imageSrc]: data URL -> image element + fit.  The clean-up of
\* the previous run of the effect clears its "mounted" flag.
ImageLoadEffect(p, c, acc) ==
  IF c.imageSrc = p.imageSrc THEN acc
  ELSE
    LET stale == {[d EXCEPT !.mounted = FALSE] : d \in acc.decodes}
    IN IF c.imageSrc = 0
         THEN [acc EXCEPT !.decodes = stale, !.imgEl = NoImg, !.imageFit = NoFit,
                          !.stageSize = DefaultStage]
         ELSE [acc EXCEPT
                 !.decodes = stale \cup
                   {[id |-> acc.nDecode + 1, src |-> c.imageSrc, mounted |-> TRUE]},
                 !.nDecode = @ + 1]

\* A detection effect whose guard does not look at the detector.
DetectionEffect_noDetectorGuard(p, c, acc) ==
  IF c.detector = p.detector /\ c.imgEl = p.imgEl /\ c.imageFit = p.imageFit THEN acc
  ELSE
    LET old == {[r EXCEPT !.cancelled = TRUE] : r \in acc.runs}
    IN IF c.imgEl.id = 0 \/ c.imageFit.id = 0
         THEN [acc EXCEPT !.runs = old]
         ELSE [acc EXCEPT
                 !.runs = old \cup
                   {[id |-> acc.nRun + 1, detector |-> c.detector, img |-> c.imgEl,
                     fit |-> c.imageFit, points |-> c.points, cancelled |-> FALSE,
                     canvas |-> [width |-> c.imageFit.width, height |-> c.imageFit.height],
                     attempt |-> 1]},
                 !.nRun = @ + 1]

\* useEffect [detector, imgEl, imageFit]: the clean-up sets "cancelled" of
\* the previous detectOnce; the body starts detectOnce, whose closure holds
\* detector, imgEl, imageFit and points of the render, and which draws the
\* image on the canvas "off" and runs up to its first await (the first
\* estimateFaces call).
DetectionEffect(p, c, acc) ==
  IF c.detector = p.detector /\ c.imgEl = p.imgEl /\ c.imageFit = p.imageFit THEN acc
  ELSE
    LET old == {[r EXCEPT !.cancelled = TRUE] : r \in acc.runs}
    IN IF c.detector = 0 \/ c.imgEl.id = 0 \/ c.imageFit.id = 0
         THEN [acc EXCEPT !.runs = old]
         ELSE [acc EXCEPT
                 !.runs = old \cup
                   {[id |-> acc.nRun + 1, detector |-> c.detector, img |-> c.imgEl,
                     fit |-> c.imageFit, points |-> c.points, cancelled |-> FALSE,
                     canvas |-> [width |-> c.imageFit.width, height |-> c.imageFit.height],
                     attempt |-> 1]},
                 !.nRun = @ + 1]

\* A stage-sync effect that sets the default size.
StageSyncEffect_resets(p, c, acc) ==
  IF c.imageFit = p.imageFit \/ c.imageFit.id = 0 THEN acc
  ELSE [acc EXCEPT !.stageSize = DefaultStage]

\* useEffect [imageFit]: keep the stage size in sync with imageFit.
StageSyncEffect(p, c, acc) ==
  IF c.imageFit = p.imageFit \/ c.imageFit.id = 0 THEN acc
  ELSE [acc EXCEPT !.stageSize = [width |-> c.imageFit.width, height |-> c.imageFit.height]]

\* One commit: the effects in the order of their declaration.
Pass(p, c) ==
  StageSyncEffect(p, c,
    DetectionEffect(p, c,
      ImageLoadEffect(p, c,
        FileReadEffect(p, c, c))))

\* A handler turned the state p into c: commit c, and commit again while the
\* effects queue state updates.
RECURSIVE Commit(_, _)
Commit(p, c) ==
  LET n == Pass(p, c) IN IF n = c THEN c ELSE Commit(c, n)

\* -------------------------------------------------------------------- init
\* The state after the first commit: all effects ran once with everything
\* null, and setup() is at its first await.
Init ==
  /\ alive = TRUE
  /\ file = NoFile
  /\ imageSrc = 0
  /\ imgEl = NoImg
  /\ imageFit = NoFit
  /\ stageSize = DefaultStage
  /\ landmarks = EmptyMesh
  /\ detector = 0
  /\ points = <<>>
  /\ reads = {}
  /\ decodes = {}
  /\ runs = {}
  /\ setup = [pc |-> "setBackend", mounted |-> TRUE, created |-> 0, disposals |-> 0,
              threw |-> {}, tried |-> {}, sets |-> 0, lateSets |-> 0]
  /\ nextId = 0
  /\ nDecode = 0
  /\ nRun = 0
  /\ ops = 0
  /\ toggles = DefaultToggles
  /\ ev = Ev("mount")

\* ---------------------------------------------------------------- pipeline
\* An onChange that does not clear the markers.
onChange_keepsPoints(s, c) ==
  IF c = 0 THEN s
  ELSE [s EXCEPT !.file = [sel |-> s.file.sel + 1, content |-> c],
                 !.landmarks = EmptyMesh, !.imageFit = NoFit]

\* <input type="file"> onChange: the state it sets, from the state s; c is
\* the content of e.target.files[0], 0 when there is no file.
onChange(s, c) ==
  IF c = 0 THEN s
  ELSE [s EXCEPT !.file = [sel |-> s.file.sel + 1, content |-> c],
                 !.points = <<>>, !.landmarks = EmptyMesh, !.imageFit = NoFit]

\* onChange with a file of content c.  ev keeps the number of markers and
\* whether there were landmarks before.
SelectFile(c) ==
  /\ alive
  /\ file.sel < MaxSelect
  /\ Install(Commit(Cur, onChange(Cur, c)))
  /\ ev' = [Ev("select") EXCEPT !.id = Len(points), !.withMesh = landmarks # EmptyMesh]
  /\ UNCHANGED <<alive, setup, nextId, ops, toggles>>

\* onChange without a file (the picker was cancelled).
SelectNone ==
  /\ alive
  /\ Install(Commit(Cur, onChange(Cur, 0)))
  /\ ev' = Ev("selectNone")
  /\ UNCHANGED <<alive, setup, nextId, ops, toggles>>

\* reader.onload (ok) or reader.onerror of a pending FileReader.  A state
\* update of an unmounted component has no effect.
ReadDone(r, ok) ==
  /\ r \in reads
  /\ LET c == [Cur EXCEPT !.reads = @ \ {r}]
     IN IF alive
          THEN Install(Commit(c, [c EXCEPT !.imageSrc = IF ok THEN r.content ELSE 0]))
          ELSE Install(c)
  /\ ev' = [Ev("read") EXCEPT !.id = r.id, !.applied = ok,
                              !.log = IF ok THEN "" ELSE "FileReader error"]
  /\ UNCHANGED <<alive, setup, nextId, ops, toggles>>

\* The fit image.onload computes for the image of content c.
fitOf(c) ==
  fitImage(IF naturalWidth(c) # 0 THEN naturalWidth(c) ELSE DEFAULT_STAGE_WIDTH,
           IF naturalHeight(c) # 0 THEN naturalHeight(c) ELSE DEFAULT_STAGE_HEIGHT,
           DEFAULT_STAGE_WIDTH, DEFAULT_STAGE_HEIGHT)

\* An image.onload without "if (!mounted) return".
imageOnLoad_unguarded(d, s) ==
  [s EXCEPT !.imgEl = [id |-> d.id, content |-> d.src],
            !.imageFit = [id |-> d.id, width |-> fitOf(d.src).width,
                          height |-> fitOf(d.src).height],
            !.stageSize = fitOf(d.src)]

\* image.onload of the Image d: the state it sets, from the state s.
imageOnLoad(d, s) ==
  IF ~d.mounted THEN s
  ELSE [s EXCEPT !.imgEl = [id |-> d.id, content |-> d.src],
                 !.imageFit = [id |-> d.id, width |-> fitOf(d.src).width,
                               height |-> fitOf(d.src).height],
                 !.stageSize = fitOf(d.src)]

\* image.onerror of the Image d: the state it sets (the stage size is left).
imageOnError(d, s) ==
  IF ~d.mounted THEN s
  ELSE [s EXCEPT !.imgEl = NoImg, !.imageFit = NoFit]

\* image.onload (ok) or image.onerror of a pending Image.  ev.cancelled: the
\* "mounted" flag of its effect was cleared.
DecodeDone(d, ok) ==
  /\ d \in decodes
  /\ LET c == [Cur EXCEPT !.decodes = @ \ {d}]
     IN Install(Commit(c, IF ok THEN imageOnLoad(d, c) ELSE imageOnError(d, c)))
  /\ ev' = [Ev("decode") EXCEPT !.id = d.id, !.applied = d.mounted /\ ok,
                                !.cancelled = ~d.mounted,
                                !.log = IF ok THEN "" ELSE "Image load error"]
  /\ UNCHANGED <<alive, setup, nextId, ops, toggles>>

\* ----------------------------------------------------------------- markers
Marker(id, x, y) == [id |-> id, x |-> x, y |-> y, product |-> "", dose |-> ""]

\* nanoid(): the k-th id made after n ids have been made.  Ids are never
\* reused.
nanoid(n, k) == n + k

lipsIndices == <<13, 14, 78, 308>>

\* detectOnce: lipsIndices.map(i => mesh[i] ? {id: nanoid(), ...} : null)
\* .filter(Boolean), after n ids have been made.
defaultPoints(mesh, n) ==
  LET present == SelectSeq(lipsIndices, LAMBDA i : Has(mesh, i))
  IN [k \in 1..Len(present) |->
        Marker(nanoid(n, k), At(mesh, present[k])[1], At(mesh, present[k])[2])]

\* An onAddPoint that gives the marker the id made last instead of a new one.
onAddPoint_reusesId(p, n, fit, stage) ==
  Append(p, Marker(nanoid(n, 0),
                   ((IF fit.id # 0 THEN fit.width ELSE stage.width) * Sub) \div 2,
                   ((IF fit.id # 0 THEN fit.height ELSE stage.height) * Sub) \div 2))

\* An onAddPoint that does not halve the width and the height.
onAddPoint_corner(p, n, fit, stage) ==
  Append(p, Marker(nanoid(n, 1),
                   (IF fit.id # 0 THEN fit.width ELSE stage.width) * Sub,
                   (IF fit.id # 0 THEN fit.height ELSE stage.height) * Sub))

\* onAddPoint: the new list.
onAddPoint(p, n, fit, stage) ==
  Append(p, Marker(nanoid(n, 1),
                   ((IF fit.id # 0 THEN fit.width ELSE stage.width) * Sub) \div 2,
                   ((IF fit.id # 0 THEN fit.height ELSE stage.height) * Sub) \div 2))

\* An updatePointMeta that does not test the id.
updatePointMeta_everyMarker(prev, id, data) ==
  [k \in 1..Len(prev) |->
     [f \in DOMAIN prev[k] |-> IF f \in DOMAIN data THEN data[f] ELSE prev[k][f]]]

\* updatePointMeta: data is a record with some of the fields x, y, product,
\* dose; {...pt, ...data} for the marker with the id.
updatePointMeta(prev, id, data) ==
  [k \in 1..Len(prev) |->
     IF prev[k].id = id
       THEN [f \in DOMAIN prev[k] |-> IF f \in DOMAIN data THEN data[f] ELSE prev[k][f]]
       ELSE prev[k]]

\* A removePoint by position (findIndex and splice) that does not test
\* whether the id was found: splice(-1, 1) removes the last marker.
removePoint_splice(ps, id) ==
  IF \E k \in 1..Len(ps) : ps[k].id = id
    THEN SelectSeq(ps, LAMBDA q : q.id # id)
    ELSE SubSeq(ps, 1, Len(ps) - 1)

removePoint(ps, id) == SelectSeq(ps, LAMBDA q : q.id # id)

\* The bounding box of the landmarks, which the loops of midlineEndpoints
\* and thirdsYs compute as running minima and maxima.
SetMin(S) == CHOOSE x \in S : \A y \in S : x <= y
SetMax(S) == CHOOSE x \in S : \A y \in S : x >= y
BBox(lms) ==
  LET xs == {At(lms, i)[1] : i \in (0..(Length(lms) - 1)) \ lms.holes}
      ys == {At(lms, i)[2] : i \in (0..(Length(lms) - 1)) \ lms.holes}
  IN [minX |-> SetMin(xs), maxX |-> SetMax(xs), minY |-> SetMin(ys), maxY |-> SetMax(ys)]

Pt(x, y) == [x |-> x, y |-> y]

\* A midlineEndpoints without the bounding-box fallback.
midlineEndpoints_noFallback(lms) ==
  IF Length(lms) > 152 /\ Has(lms, 10) /\ Has(lms, 152)
    THEN [ok |-> TRUE, a |-> Pt(At(lms, 10)[1], At(lms, 10)[2]),
                       b |-> Pt(At(lms, 152)[1], At(lms, 152)[2])]
  ELSE [ok |-> FALSE, a |-> Pt(0, 0), b |-> Pt(0, 0)]

\* midlineEndpoints; ok = FALSE is null.
midlineEndpoints(lms) ==
  IF Length(lms) > 152 /\ Has(lms, 10) /\ Has(lms, 152)
    THEN [ok |-> TRUE, a |-> Pt(At(lms, 10)[1], At(lms, 10)[2]),
                       b |-> Pt(At(lms, 152)[1], At(lms, 152)[2])]
  ELSE IF Length(lms) = 0 THEN [ok |-> FALSE, a |-> Pt(0, 0), b |-> Pt(0, 0)]
  ELSE LET box == BBox(lms)
           cx == (box.minX + box.maxX) \div 2
       IN [ok |-> TRUE, a |-> Pt(cx, box.minY), b |-> Pt(cx, box.maxY)]

\* A side with the two terms of the cross product exchanged.
perpSide_otherSign(point, a, b) ==
  LET v == Pt(b.x - a.x, b.y - a.y)
      w == Pt(point.x - a.x, point.y - a.y)
  IN IF v.x * v.x + v.y * v.y = 0 THEN 0 ELSE v.y * w.x - v.x * w.y

\* perpDistanceToLine, the field side of its result.
perpSide(point, a, b) ==
  LET v == Pt(b.x - a.x, b.y - a.y)
      w == Pt(point.x - a.x, point.y - a.y)
  IN IF v.x * v.x + v.y * v.y = 0 THEN 0 ELSE v.x * w.y - v.y * w.x

\* perpDistanceToLine, the field dist of its result, in exact arithmetic and
\* held as its square, the quotient num / den: with t = dot / vlen2, the
\* vector perp = point - (a + v * t) is (px, py) / vlen2.  The products
\* stay within the integers of the checker for small coordinates only.
perpDist2(point, a, b) ==
  LET v == Pt(b.x - a.x, b.y - a.y)
      w == Pt(point.x - a.x, point.y - a.y)
      vlen2 == v.x * v.x + v.y * v.y
      dot == w.x * v.x + w.y * v.y
      px == w.x * vlen2 - v.x * dot
      py == w.y * vlen2 - v.y * dot
  IN IF vlen2 = 0 THEN [num |-> w.x * w.x + w.y * w.y, den |-> 1]
     ELSE [num |-> px * px + py * py, den |-> vlen2 * vlen2]

\* perpDistanceToLine.
perpDistanceToLine(point, a, b) ==
  [dist2 |-> perpDist2(point, a, b), side |-> perpSide(point, a, b)]

\* pointOffsets: for each marker its id and the side perpDistanceToLine
\* gives it against the midline; without a midline, dist 0 and side 0.  The
\* rounded distance to an existing midline is not represented (line is
\* TRUE): at stage coordinates its square is beyond the checker's integers.
pointOffsets(ps, lms) ==
  LET mid == midlineEndpoints(lms)
  IN [k \in 1..Len(ps) |->
        IF ~mid.ok THEN [id |-> ps[k].id, line |-> FALSE, dist |-> 0, side |-> 0]
        ELSE [id |-> ps[k].id, line |-> TRUE, dist |-> 0,
              side |-> perpSide(Pt(ps[k].x, ps[k].y), mid.a, mid.b)]]

\* sideLabel.
sideLabel(side) == IF side = 0 THEN "C" ELSE IF side > 0 THEN "L" ELSE "R"

\* eyeLine; ok = FALSE is null.
eyeLine(lms) ==
  IF Length(lms) > 263 /\ Has(lms, 33) /\ Has(lms, 263)
    THEN [ok |-> TRUE, l |-> Pt(At(lms, 33)[1], At(lms, 33)[2]),
                       r |-> Pt(At(lms, 263)[1], At(lms, 263)[2])]
    ELSE [ok |-> FALSE, l |-> Pt(0, 0), r |-> Pt(0, 0)]

\* thirdsYs; ok = FALSE is null.
thirdsYs(lms) ==
  LET box == BBox(lms)
      h == box.maxY - box.minY
  IN IF Length(lms) = 0 \/ h <= 0
       THEN [ok |-> FALSE, y1 |-> 0, y2 |-> 0, xmin |-> 0, xmax |-> 0]
       ELSE [ok |-> TRUE, y1 |-> box.minY + h \div 3, y2 |-> box.minY + (2 * h) \div 3,
             xmin |-> box.minX, xmax |-> box.maxX]

PresetNames == {"lips", "nasolabial", "marionette"}
presetTemplates(name) ==
  IF name = "lips" THEN <<13, 14, 78, 308>>
  ELSE IF name = "nasolabial" THEN <<50, 280, 146, 376>>
  ELSE <<57, 287, 164, 393>>

\* A loop of addPreset that skips the indices without a landmark.
RECURSIVE presetLoop_skipsMissing(_, _, _, _, _, _)
presetLoop_skipsMissing(indices, k, newPts, lms, stage, n) ==
  IF k > Len(indices) THEN newPts
  ELSE IF Has(lms, indices[k])
    THEN presetLoop_skipsMissing(indices, k + 1,
           Append(newPts, Marker(nanoid(n, Len(newPts) + 1),
                                 At(lms, indices[k])[1], At(lms, indices[k])[2])),
           lms, stage, n)
    ELSE presetLoop_skipsMissing(indices, k + 1, newPts, lms, stage, n)

\* addPreset, the loop over tpl.indices from position k on; newPts is the
\* list built so far.
RECURSIVE presetLoop(_, _, _, _, _, _)
presetLoop(indices, k, newPts, lms, stage, n) ==
  IF k > Len(indices) THEN newPts
  ELSE
    LET idx == indices[k]
        mid == midlineEndpoints(lms)
        thirds == thirdsYs(lms)
        id == nanoid(n, Len(newPts) + 1)
        pt ==
          IF Has(lms, idx) THEN Marker(id, At(lms, idx)[1], At(lms, idx)[2])
          ELSE IF mid.ok /\ thirds.ok
            THEN Marker(id,
                        (mid.a.x + mid.b.x) \div 2
                          + (IF Len(newPts) % 2 = 0 THEN 0 - 12 ELSE 12) * Sub,
                        IF Len(newPts) < 2 THEN thirds.y1 ELSE thirds.y2)
            ELSE Marker(id,
                        (stage.width * Sub) \div 2 + (Len(newPts) - 1) * 10 * Sub,
                        (stage.height * Sub) \div 2)
    IN presetLoop(indices, k + 1, Append(newPts, pt), lms, stage, n)

\* An addPreset whose offsets without landmarks are (i - 1) * 12 and * 10.
addPreset_wholeOffsets(name, lms, stage, n) ==
  IF Length(lms) = 0
    THEN [k \in 1..4 |->
            Marker(nanoid(n, k),
                   (stage.width * Sub) \div 2 + (k - 3) * 12 * Sub,
                   (stage.height * Sub) \div 2 + (k - 3) * 10 * Sub)]
    ELSE presetLoop(presetTemplates(name), 1, <<>>, lms, stage, n)

\* addPreset: the markers it appends, after n ids have been made.
addPreset(name, lms, stage, n) ==
  IF Length(lms) = 0
    THEN [k \in 1..4 |->
            \* i = k - 2 runs over -1, 0, 1, 2; (i - 1.5) * 12 and * 10
            Marker(nanoid(n, k),
                   (stage.width * Sub) \div 2 + ((2 * (k - 2) - 3) * 12 * Sub) \div 2,
                   (stage.height * Sub) \div 2 + ((2 * (k - 2) - 3) * 10 * Sub) \div 2)]
    ELSE presetLoop(presetTemplates(name), 1, <<>>, lms, stage, n)

\* snapPointToNearestLandmark, the scan: the index of the landmark the loop
\* ends with in "best" (-1 for null).  The loop keeps the first landmark
\* within the radius that no later one beats with a strictly smaller
\* distance; distances are compared by their squares.
snapD2(lms, pt, i) ==
  (At(lms, i)[1] - pt.x) * (At(lms, i)[1] - pt.x)
    + (At(lms, i)[2] - pt.y) * (At(lms, i)[2] - pt.y)
\* A scan that accepts a landmark only when its distance is below the radius.
snapScan_exclusiveRadius(lms, pt, radius) ==
  LET near == {i \in (0..(Length(lms) - 1)) \ lms.holes :
                 snapD2(lms, pt, i) < (radius * Sub) * (radius * Sub)}
  IN IF near = {} THEN 0 - 1
     ELSE CHOOSE i \in near :
            \A j \in near : snapD2(lms, pt, i) < snapD2(lms, pt, j)
                              \/ (snapD2(lms, pt, i) = snapD2(lms, pt, j) /\ i <= j)

snapScan(lms, pt, radius) ==
  LET near == {i \in (0..(Length(lms) - 1)) \ lms.holes :
                 snapD2(lms, pt, i) <= (radius * Sub) * (radius * Sub)}
  IN IF near = {} THEN 0 - 1
     ELSE CHOOSE i \in near :
            \A j \in near : snapD2(lms, pt, i) < snapD2(lms, pt, j)
                              \/ (snapD2(lms, pt, i) = snapD2(lms, pt, j) /\ i <= j)

\* A snapPointToNearestLandmark that moves the marker half of the way.
snapPointToNearestLandmark_halfway(ps, lms, id) ==
  LET found == {k \in 1..Len(ps) : ps[k].id = id}
  IN IF found = {} \/ Length(lms) = 0 THEN ps
     ELSE LET pt == ps[CHOOSE k \in found : \A j \in found : k <= j]
              best == snapScan(lms, pt, SnapRadius)
          IN IF best < 0 THEN ps
             ELSE updatePointMeta(ps, id, [x |-> (pt.x + At(lms, best)[1]) \div 2,
                                           y |-> (pt.y + At(lms, best)[2]) \div 2])

\* snapPointToNearestLandmark: the new list.
snapPointToNearestLandmark(ps, lms, id) ==
  LET found == {k \in 1..Len(ps) : ps[k].id = id}
  IN IF found = {} \/ Length(lms) = 0 THEN ps
     ELSE LET pt == ps[CHOOSE k \in found : \A j \in found : k <= j]
              best == snapScan(lms, pt, SnapRadius)
          IN IF best < 0 THEN ps
             ELSE updatePointMeta(ps, id, [x |-> At(lms, best)[1], y |-> At(lms, best)[2]])

\* ---------------------------------------------------------------- sampling
\* Math.hypot, for the vectors whose length is an integer.
Hypot(dx, dy) ==
  CHOOSE l \in 0..((IF dx < 0 THEN 0 - dx ELSE dx) + (IF dy < 0 THEN 0 - dy ELSE dy)) :
    l * l = dx * dx + dy * dy

\* samplesAlong, the first loop: segLens, and their sum total.
segLensOf(pts) ==
  [i \in 1..(Len(pts) - 1) |-> Hypot(pts[i + 1].x - pts[i].x, pts[i + 1].y - pts[i].y)]
RECURSIVE SumTo(_, _)
SumTo(lens, k) == IF k = 0 THEN 0 ELSE SumTo(lens, k - 1) + lens[k]

\* samplesAlong, the while loop that finds the segment of t: accum and
\* segIdx (from 0) when it ends.  t is given as t2n = t * 2n.
RECURSIVE segSearch(_, _, _, _, _)
segSearch(segLens, t2n, n, accum, segIdx) ==
  IF segIdx < Len(segLens) /\ (accum + segLens[segIdx + 1]) * 2 * n < t2n
    THEN segSearch(segLens, t2n, n, accum + segLens[segIdx + 1], segIdx + 1)
    ELSE [accum |-> accum, segIdx |-> segIdx]

\* samplesAlong, one pass of the for loop, in exact arithmetic: t is
\* (s + 0.5) / n * total, localT is num / den, the sample is at
\* (x, y) / den and its normal is (nx, ny) / len.
sampleAt(pts, n, s) ==
  LET segLens == segLensOf(pts)
      total == SumTo(segLens, Len(segLens))
      found == segSearch(segLens, (2 * s + 1) * total, n, 0, 0)
      segIdx == IF found.segIdx >= Len(segLens) THEN Len(segLens) - 1 ELSE found.segIdx
      num == (2 * s + 1) * total - found.accum * 2 * n
      den == (IF segLens[segIdx + 1] # 0 THEN segLens[segIdx + 1] ELSE 1) * 2 * n
      a == pts[segIdx + 1]
      b == pts[segIdx + 2]
  IN [segIdx |-> segIdx, num |-> num, den |-> den,
      x |-> a.x * den + (b.x - a.x) * num,
      y |-> a.y * den + (b.y - a.y) * num,
      nx |-> 0 - (b.y - a.y), ny |-> b.x - a.x,
      len |-> IF Hypot(b.x - a.x, b.y - a.y) # 0 THEN Hypot(b.x - a.x, b.y - a.y) ELSE 1]

\* A samplesAlong without the test of the total length.
samplesAlong_noLengthTest(pts, n) ==
  IF Len(pts) < 2 THEN <<>>
  ELSE [k \in 1..n |-> sampleAt(pts, n, k - 1)]

\* samplesAlong.
samplesAlong(pts, n) ==
  IF Len(pts) < 2 THEN <<>>
  ELSE IF SumTo(segLensOf(pts), Len(pts) - 1) = 0 THEN <<>>
  ELSE [k \in 1..n |-> sampleAt(pts, n, k - 1)]

\* ---------------------------------------------------------------- overlays
\* null of indicesToXY.
NoPts == [ok |-> FALSE, pts |-> <<>>]

\* An indicesToXY that leaves out the indices without a landmark.
indicesToXY_skipsMissing(indices, lms) ==
  IF Length(lms) = 0 THEN NoPts
  ELSE LET present == SelectSeq(indices, LAMBDA i : Has(lms, i))
       IN [ok |-> TRUE,
           pts |-> [k \in 1..Len(present) |->
                      Pt(At(lms, present[k])[1], At(lms, present[k])[2])]]

\* indicesToXY: the points of the indices, or null when the array is empty
\* or one index has no landmark.
indicesToXY(indices, lms) ==
  IF Length(lms) = 0 THEN NoPts
  ELSE IF \E k \in 1..Len(indices) : ~Has(lms, indices[k]) THEN NoPts
  ELSE [ok |-> TRUE,
        pts |-> [k \in 1..Len(indices) |->
                   Pt(At(lms, indices[k])[1], At(lms, indices[k])[2])]]

muscleDefs ==
  << [id |-> "orbicularis_oris",
      boundary |-> <<61, 146, 91, 181, 84, 17, 314, 405, 321, 375, 291, 61>>,
      centerline |-> <<13, 78, 14>>],
     [id |-> "zygomaticus_major_l",
      boundary |-> <<61, 226, 354, 334, 293>>, centerline |-> <<61, 226, 345>>],
     [id |-> "zygomaticus_major_r",
      boundary |-> <<291, 446, 323, 361, 291>>, centerline |-> <<291, 446, 323>>],
     [id |-> "mentalis",
      boundary |-> <<152, 148, 176, 149, 150, 152>>, centerline |-> <<152, 148, 176>>] >>

\* musclesToRender: map, then filter(Boolean).  Every definition has a
\* centerline; ok of centerPts = FALSE is null.
musclesToRender(lms) ==
  LET shape(m) ==
        LET boundaryPts == indicesToXY(m.boundary, lms)
        IN [ok |-> boundaryPts.ok, id |-> m.id, boundaryPts |-> boundaryPts.pts,
            centerPts |-> indicesToXY(m.centerline, lms)]
  IN SelectSeq([k \in 1..Len(muscleDefs) |-> shape(muscleDefs[k])], LAMBDA sh : sh.ok)

vesselDefs ==
  << [id |-> "facial_artery_l", indices |-> <<234, 93, 132, 58, 0, 1, 2>>],
     [id |-> "facial_artery_r", indices |-> <<454, 323, 361, 288, 267, 266, 265>>],
     [id |-> "angular_l", indices |-> <<2, 98, 4, 5>>],
     [id |-> "angular_r", indices |-> <<265, 362, 257, 256>>],
     [id |-> "sup_labial", indices |-> <<61, 62, 63, 64, 65, 66>>],
     [id |-> "inf_labial", indices |-> <<291, 292, 293, 294, 295, 296>>] >>

\* vesselShapes: map, then filter(Boolean).
vesselShapes(lms) ==
  LET shape(v) ==
        LET pts == indicesToXY(v.indices, lms)
        IN [ok |-> pts.ok, id |-> v.id, pts |-> pts.pts]
  IN SelectSeq([k \in 1..Len(vesselDefs) |-> shape(vesselDefs[k])], LAMBDA sh : sh.ok)

\* --------------------------------------------------------------- detection
\* A cascade that goes on to the next call form after a null result too.
afterAttempt_retriesOnNull(r, o) ==
  IF o.kind \in {"throw", "null"} THEN (IF r.attempt < 3 THEN "retry" ELSE "fail")
  ELSE "value"

\* A cascade that takes a null result for a value.
afterAttempt_nullIsValue(r, o) ==
  IF o.kind = "throw" THEN (IF r.attempt < 3 THEN "retry" ELSE "fail")
  ELSE "value"

\* detectOnce, the cascade of estimateFaces calls: what follows when the
\* pending call of run r ends with outcome o.  "retry" is the next call
\* form, "fail" is throw lastErr (caught and logged by detectOnce), "value"
\* goes on to the cancellation check.
afterAttempt(r, o) ==
  IF o.kind = "throw" THEN (IF r.attempt < 3 THEN "retry" ELSE "fail")
  ELSE IF o.kind = "null" THEN "fail"
  ELSE "value"

\* detectOnce with a first face: setLandmarks(mesh), and the default lip
\* markers if the points of the run's closure (r.points) are empty.
applyFace(r, face, pts, n) ==
  LET mesh == MeshOfFace(face, r.img.content)
  IN IF Len(r.points) = 0 /\ Length(mesh) > 0
       THEN [landmarks |-> mesh, points |-> defaultPoints(mesh, n),
             ids |-> n + Len(defaultPoints(mesh, n))]
       ELSE [landmarks |-> mesh, points |-> pts, ids |-> n]

\* A detectOnce that leaves the landmarks alone when no face is predicted.
applyResult_keepsLandmarks(r, o, lms, pts, n) ==
  IF o.kind = "null" \/ Len(o.faces) = 0
    THEN [landmarks |-> lms, points |-> pts, ids |-> n]
    ELSE applyFace(r, o.faces[1], pts, n)

\* detectOnce after the cancellation check: the landmarks, the markers and
\* the number of ids made, given those of the current state (lms, pts, n).
applyResult(r, o, lms, pts, n) ==
  IF o.kind = "null" \/ Len(o.faces) = 0
    THEN [landmarks |-> EmptyMesh, points |-> pts, ids |-> n]
    ELSE applyFace(r, o.faces[1], pts, n)

\* A detectOnce without "if (cancelled) return".
applyPredictions_unchecked(r, o, lms, pts, n) == applyResult(r, o, lms, pts, n)

\* detectOnce from "if (cancelled) return" on.
applyPredictions(r, o, lms, pts, n) ==
  IF r.cancelled THEN [landmarks |-> lms, points |-> pts, ids |-> n]
  ELSE applyResult(r, o, lms, pts, n)

\* The pending estimateFaces call of run r ends with outcome o.
Resolve(r, o) ==
  /\ r \in runs
  /\ LET next == afterAttempt(r, o)
         new == applyPredictions(r, o, landmarks, points, nextId)
     IN IF next = "retry"
          THEN /\ runs' = (runs \ {r}) \cup {[r EXCEPT !.attempt = @ + 1]}
               /\ UNCHANGED <<landmarks, points, nextId>>
               /\ ev' = [Ev("resolve") EXCEPT !.run = r.id, !.cancelled = r.cancelled,
                                              !.kind = o.kind, !.retried = TRUE,
                                              !.id = r.attempt]
        ELSE IF next = "fail"
          THEN /\ runs' = runs \ {r}
               /\ UNCHANGED <<landmarks, points, nextId>>
               /\ ev' = [Ev("resolve") EXCEPT !.run = r.id, !.cancelled = r.cancelled,
                                              !.kind = o.kind, !.log = "detectOnce error",
                                              !.id = r.attempt]
        ELSE /\ runs' = runs \ {r}
             /\ landmarks' = new.landmarks
             /\ points' = new.points
             /\ nextId' = new.ids
             /\ ev' = [Ev("resolve") EXCEPT
                        !.run = r.id, !.cancelled = r.cancelled, !.kind = o.kind,
                        !.id = r.attempt,
                        !.withMesh = Len(o.faces) > 0
                                       /\ Length(MeshOfFace(o.faces[1], r.img.content)) > 0,
                        !.res = IF r.cancelled THEN NoRes ELSE o,
                        !.applied = ~r.cancelled]
  /\ UNCHANGED <<alive, file, imageSrc, imgEl, imageFit, stageSize, detector, reads,
                 decodes, setup, nDecode, nRun, ops, toggles>>

\* ---------------------------------------------------------- detector setup
\* setup(): await tf.setBackend("webgl").
SetBackendDone(ok) ==
  /\ setup.pc = "setBackend"
  /\ setup' = [setup EXCEPT !.pc = IF ok THEN "ready" ELSE "failed",
                            !.threw = IF ok THEN @ ELSE @ \cup {"backend"}]
  /\ ev' = [Ev("setBackend") EXCEPT !.applied = ok,
                                    !.log = IF ok THEN "" ELSE "Detector setup error"]
  /\ UNCHANGED <<alive, file, imageSrc, imgEl, imageFit, stageSize, landmarks, detector,
                 points, reads, decodes, runs, nextId, nDecode, nRun, ops, toggles>>

\* setup(): await tf.ready(), and on success the call of createDetector.
ReadyDone(ok) ==
  /\ setup.pc = "ready"
  /\ setup' = [setup EXCEPT !.pc = IF ok THEN "create" ELSE "failed",
                            !.threw = IF ok THEN @ ELSE @ \cup {"backend"},
                            !.tried = IF ok THEN @ \cup {"create"} ELSE @]
  /\ ev' = [Ev("ready") EXCEPT !.applied = ok,
                               !.log = IF ok THEN "" ELSE "Detector setup error"]
  /\ UNCHANGED <<alive, file, imageSrc, imgEl, imageFit, stageSize, landmarks, detector,
                 points, reads, decodes, runs, nextId, nDecode, nRun, ops, toggles>>

\* A legacy branch that calls setDetector without looking at "mounted".
afterLegacyLoad_unguarded(s, ok) ==
  IF ok
    THEN [setup |-> [s EXCEPT !.pc = "done", !.created = 2], set |-> 2]
    ELSE [setup |-> [s EXCEPT !.pc = "failed", !.threw = @ \cup {"legacy"}], set |-> 0]

\* A setup() that disposes the detector createDetector made whether the
\* component is mounted or not.
afterCreateDetector_alwaysDisposes(s, ok) ==
  IF ok
    THEN [setup |-> [s EXCEPT !.pc = "done", !.created = 1, !.disposals = @ + 1],
          set |-> IF s.mounted THEN 1 ELSE 0]
    ELSE [setup |-> [s EXCEPT !.pc = "legacy", !.threw = @ \cup {"create"},
                              !.tried = @ \cup {"legacy"}],
          set |-> 0]

\* setup(), from the end of "await createDetector(...)" on: the set-up
\* record and the detector given to setDetector (0: no call).  Detector 1 is
\* the one createDetector makes; when it throws, load() is called.
afterCreateDetector(s, ok) ==
  IF ok
    THEN [setup |-> [s EXCEPT !.pc = "done", !.created = 1,
                              !.disposals = IF s.mounted THEN @ ELSE @ + 1],
          set |-> IF s.mounted THEN 1 ELSE 0]
    ELSE [setup |-> [s EXCEPT !.pc = "legacy", !.threw = @ \cup {"create"},
                              !.tried = @ \cup {"legacy"}],
          set |-> 0]

\* setup(), from the end of "await load(...)" (the legacy API) on.  Detector
\* 2 is the one load makes; when it throws, the error is thrown again and
\* caught by the outer catch.
afterLegacyLoad(s, ok) ==
  IF ok
    THEN [setup |-> [s EXCEPT !.pc = "done", !.created = 2],
          set |-> IF s.mounted THEN 2 ELSE 0]
    ELSE [setup |-> [s EXCEPT !.pc = "failed", !.threw = @ \cup {"legacy"}], set |-> 0]

\* The state after a creation step res: setDetector(res.set) if it is made.
SetDetector(res) ==
  /\ setup' = [res.setup EXCEPT
                 !.sets = IF res.set # 0 THEN @ + 1 ELSE @,
                 !.lateSets = IF res.set # 0 /\ ~alive THEN @ + 1 ELSE @]
  /\ IF res.set # 0
       THEN Install(Commit(Cur, [Cur EXCEPT !.detector = res.set]))
       ELSE Install(Cur)

\* setup(): await createDetector(...).
CreateDetectorDone(ok) ==
  /\ setup.pc = "create"
  /\ SetDetector(afterCreateDetector(setup, ok))
  /\ ev' = [Ev("createDetector") EXCEPT !.applied = ok,
                                        !.log = IF ok THEN "" ELSE "createDetector failed"]
  /\ UNCHANGED <<alive, nextId, ops, toggles>>

\* setup(): await load(...), the legacy API.
LegacyLoadDone(ok) ==
  /\ setup.pc = "legacy"
  /\ SetDetector(afterLegacyLoad(setup, ok))
  /\ ev' = [Ev("legacyLoad") EXCEPT !.applied = ok,
                                    !.log = IF ok THEN "" ELSE "Detector setup error"]
  /\ UNCHANGED <<alive, nextId, ops, toggles>>

\* The component unmounts: the clean-ups of all effects run.
Unmount ==
  /\ alive
  /\ alive' = FALSE
  /\ decodes' = {[d EXCEPT !.mounted = FALSE] : d \in decodes}
  /\ runs' = {[r EXCEPT !.cancelled = TRUE] : r \in runs}
  /\ setup' = [setup EXCEPT !.mounted = FALSE,
                            !.disposals = IF setup.created # 0 THEN @ + 1 ELSE @]
  /\ ev' = Ev("unmount")
  /\ UNCHANGED <<file, imageSrc, imgEl, imageFit, stageSize, landmarks, detector, points,
                 reads, nextId, nDecode, nRun, ops, toggles>>

\* ----------------------------------------------------------- user handlers
\* What the handlers of the markers leave alone.
MarkerFrame ==
  UNCHANGED <<alive, file, imageSrc, imgEl, imageFit, stageSize, landmarks, detector,
              reads, decodes, runs, setup, nDecode, nRun, toggles>>

\* "Add point".
AddPoint ==
  /\ alive
  /\ ops < MaxOps
  /\ points' = onAddPoint(points, nextId, imageFit, stageSize)
  /\ nextId' = nextId + 1
  /\ ops' = ops + 1
  /\ ev' = [Ev("addPoint") EXCEPT !.id = nanoid(nextId, 1)]
  /\ MarkerFrame

\* A preset button.  ev.kind is the name of the preset.
AddPreset(name) ==
  /\ alive
  /\ ops < MaxOps
  /\ points' = points \o addPreset(name, landmarks, stageSize, nextId)
  /\ nextId' = nextId + 4
  /\ ops' = ops + 1
  /\ ev' = [Ev("addPreset") EXCEPT !.id = nanoid(nextId, 1), !.kind = name]
  /\ MarkerFrame

\* Where a drag can end.
DragTargets == {<<Sub * 209 + 3, Sub * 248>>}

\* Group onDragEnd of the marker at position k.
Drag(k, to) ==
  /\ alive
  /\ ops < MaxOps
  /\ k \in 1..Len(points)
  /\ points' = updatePointMeta(points, points[k].id, [x |-> to[1], y |-> to[2]])
  /\ ops' = ops + 1
  /\ ev' = [Ev("drag") EXCEPT !.id = points[k].id]
  /\ UNCHANGED nextId
  /\ MarkerFrame

\* The product and dose inputs of the marker at position k.
Products == {"filler"}
Doses == {"0.1 mL"}
EditProduct(k, v) ==
  /\ alive
  /\ ops < MaxOps
  /\ k \in 1..Len(points)
  /\ points' = updatePointMeta(points, points[k].id, [product |-> v])
  /\ ops' = ops + 1
  /\ ev' = [Ev("product") EXCEPT !.id = points[k].id]
  /\ UNCHANGED nextId
  /\ MarkerFrame

EditDose(k, v) ==
  /\ alive
  /\ ops < MaxOps
  /\ k \in 1..Len(points)
  /\ points' = updatePointMeta(points, points[k].id, [dose |-> v])
  /\ ops' = ops + 1
  /\ ev' = [Ev("dose") EXCEPT !.id = points[k].id]
  /\ UNCHANGED nextId
  /\ MarkerFrame

\* "refresh" of the marker at position k.
Refresh(k) ==
  /\ alive
  /\ ops < MaxOps
  /\ k \in 1..Len(points)
  /\ points' = updatePointMeta(points, points[k].id,
                 [x |-> Round(points[k].x, Sub) * Sub, y |-> Round(points[k].y, Sub) * Sub])
  /\ ops' = ops + 1
  /\ ev' = [Ev("refresh") EXCEPT !.id = points[k].id]
  /\ UNCHANGED nextId
  /\ MarkerFrame

\* "snap" of the marker at position k.
Snap(k) ==
  /\ alive
  /\ ops < MaxOps
  /\ k \in 1..Len(points)
  /\ points' = snapPointToNearestLandmark(points, landmarks, points[k].id)
  /\ ops' = ops + 1
  /\ ev' = [Ev("snap") EXCEPT !.id = points[k].id]
  /\ UNCHANGED nextId
  /\ MarkerFrame

\* "remove" of the marker at position k.
Remove(k) ==
  /\ alive
  /\ ops < MaxOps
  /\ k \in 1..Len(points)
  /\ points' = removePoint(points, points[k].id)
  /\ ops' = ops + 1
  /\ ev' = [Ev("remove") EXCEPT !.id = points[k].id]
  /\ UNCHANGED nextId
  /\ MarkerFrame

\* onChange of the checkbox of a toggle: its new "checked" value.
ToggleNames == DOMAIN DefaultToggles
Toggle(name) ==
  /\ alive
  /\ toggles' = [toggles EXCEPT ![name] = ~@]
  /\ ev' = Ev("toggle")
  /\ UNCHANGED <<nextId, ops, points>>
  /\ UNCHANGED <<alive, file, imageSrc, imgEl, imageFit, stageSize, landmarks, detector,
                 reads, decodes, runs, setup, nDecode, nRun>>

\* stageRef.current: the Stage, which is rendered in every render; 0 (null)
\* while the component is not mounted.
stageRef == IF alive THEN 1 ELSE 0

\* An onExport without the test of stageRef.current: the call on null throws
\* inside the try.
onExport_noRefTest(ref, outcome) ==
  IF ref # 0 /\ outcome = "ok" THEN "download" ELSE "alert"

\* onExport: what it does, given stageRef.current and whether toDataURL
\* returns ("ok") or throws ("throw"): nothing (""), the download of the
\* snapshot, or the alert of the catch.
onExport(ref, outcome) ==
  IF ref = 0 THEN ""
  ELSE IF outcome = "ok" THEN "download"
  ELSE "alert"

\* "Export PNG".  onExport calls no setter.
Export(outcome) ==
  /\ ev' = [Ev("export") EXCEPT !.kind = outcome, !.log = onExport(stageRef, outcome)]
  /\ UNCHANGED <<nextId, ops, points, toggles>>
  /\ UNCHANGED <<alive, file, imageSrc, imgEl, imageFit, stageSize, landmarks, detector,
                 reads, decodes, runs, setup, nDecode, nRun>>

\* ------------------------------------------------------------------- spec
Next ==
  \/ \E c \in Contents : SelectFile(c)
  \/ \E r \in reads, ok \in BOOLEAN : ReadDone(r, ok)
  \/ \E d \in decodes, ok \in BOOLEAN : DecodeDone(d, ok)
  \/ \E ok \in BOOLEAN : SetBackendDone(ok)
  \/ \E ok \in BOOLEAN : ReadyDone(ok)
  \/ \E ok \in BOOLEAN : CreateDetectorDone(ok)
  \/ \E ok \in BOOLEAN : LegacyLoadDone(ok)
  \/ \E r \in runs, o \in Outcomes : Resolve(r, o)
  \/ Unmount
  \/ AddPoint
  \/ \E name \in PresetNames : AddPreset(name)
  \/ \E k \in 1..Len(points), to \in DragTargets : Drag(k, to)
  \/ \E k \in 1..Len(points), v \in Products : EditProduct(k, v)
  \/ \E k \in 1..Len(points), v \in Doses : EditDose(k, v)
  \/ \E k \in 1..Len(points) : Refresh(k)
  \/ \E k \in 1..Len(points) : Snap(k)
  \/ \E k \in 1..Len(points) : Remove(k)

Spec == Init /\ [][Next]_vars

\* The pipeline when nothing fails: every file read and image decode
\* succeeds, a detector is created (by createDetector or by the legacy
\* load), and every estimateFaces call resolves to a face with a mesh.
FaceOutcomes ==
  {o \in Outcomes : o.kind = "faces" /\ Len(o.faces) > 0
                      /\ Length(MeshOfFace(o.faces[1], 1)) > 0}
NextOk ==
  \/ \E c \in Contents : SelectFile(c)
  \/ \E r \in reads : ReadDone(r, TRUE)
  \/ \E d \in decodes : DecodeDone(d, TRUE)
  \/ SetBackendDone(TRUE)
  \/ ReadyDone(TRUE)
  \/ \E ok \in BOOLEAN : CreateDetectorDone(ok)
  \/ LegacyLoadDone(TRUE)
  \/ \E r \in runs, o \in FaceOutcomes : Resolve(r, o)

SpecOk == Init /\ [][NextOk]_vars

\* The functions of the marker list on their own: updatePointMeta and
\* removePoint applied, with any id and any data, to marker lists drawn from
\* a bounded set, in the state after an image was loaded and a detection
\* applied; and the handlers that call them.
MarkerPositions == {<<Sub * 400, Sub * 300>>} \cup DragTargets
MarkerLists ==
  LET one(i) == {[id |-> i, x |-> t[1], y |-> t[2], product |-> pr, dose |-> ""] :
                   t \in MarkerPositions, pr \in Products \cup {""}}
      RECURSIVE from(_)
      from(i) == IF i > MaxMarkers THEN {<<>>}
                 ELSE from(i + 1) \cup {<<m>> \o rest : m \in one(i), rest \in from(i + 1)}
  IN from(1)
MetaData ==
  {[x |-> t[1], y |-> t[2]] : t \in DragTargets}
    \cup {[product |-> v] : v \in Products}
    \cup {[dose |-> v] : v \in Doses}
    \cup {[y |-> t[2], dose |-> v] : t \in DragTargets, v \in Doses}

\* The state after an image of content 1 was selected, read and decoded and
\* the detector was created; landmarks and points are left to the caller.
Loaded ==
  LET fit == fitImage(naturalWidth(1), naturalHeight(1),
                      DEFAULT_STAGE_WIDTH, DEFAULT_STAGE_HEIGHT)
  IN /\ alive = TRUE
     /\ file = [sel |-> 1, content |-> 1]
     /\ imageSrc = 1
     /\ imgEl = [id |-> 1, content |-> 1]
     /\ imageFit = [id |-> 1, width |-> fit.width, height |-> fit.height]
     /\ stageSize = fit
     /\ detector = 1
     /\ reads = {}
     /\ decodes = {}
     /\ runs = {}
     /\ setup = [pc |-> "done", mounted |-> TRUE, created |-> 1, disposals |-> 0,
                 threw |-> {}, tried |-> {"create"}, sets |-> 1, lateSets |-> 0]
     /\ nextId = MaxMarkers
     /\ nDecode = 1
     /\ nRun = 1
     /\ ops = 0
     /\ toggles = DefaultToggles
     /\ ev = Ev("mount")

InitMarkers ==
  /\ Loaded
  /\ landmarks \in {EmptyMesh, Mesh(1, 468)}
  /\ points \in MarkerLists

\* updatePointMeta(id, data).
CallUpdatePointMeta(id, data) ==
  /\ alive
  /\ ops < MaxOps
  /\ points' = updatePointMeta(points, id, data)
  /\ ops' = ops + 1
  /\ ev' = [Ev("updatePointMeta") EXCEPT !.id = id, !.data = data]
  /\ UNCHANGED nextId
  /\ MarkerFrame

\* removePoint(id).
CallRemovePoint(id) ==
  /\ alive
  /\ ops < MaxOps
  /\ points' = removePoint(points, id)
  /\ ops' = ops + 1
  /\ ev' = [Ev("removePoint") EXCEPT !.id = id]
  /\ UNCHANGED nextId
  /\ MarkerFrame

NextMarkers ==
  \/ \E id \in 1..(MaxMarkers + 1), data \in MetaData : CallUpdatePointMeta(id, data)
  \/ \E id \in 1..(MaxMarkers + 1) : CallRemovePoint(id)
  \/ \E k \in 1..Len(points), to \in DragTargets : Drag(k, to)
  \/ \E k \in 1..Len(points), v \in Products : EditProduct(k, v)
  \/ \E k \in 1..Len(points), v \in Doses : EditDose(k, v)
  \/ \E k \in 1..Len(points) : Refresh(k)
  \/ \E k \in 1..Len(points) : Remove(k)

SpecMarkers == InitMarkers /\ [][NextMarkers]_vars

\* The handlers of the toolbar on their own, from the state after an image
\* was loaded, with and without landmarks and markers: the file input with
\* and without a file, the toggles, the export, "Add point", and the unmount.
InitUi ==
  /\ Loaded
  /\ landmarks \in {EmptyMesh, Mesh(1, 468)}
  /\ points \in {<<>>, defaultPoints(Mesh(1, 14), 0)}

NextUi ==
  \/ \E c \in Contents : SelectFile(c)
  \/ SelectNone
  \/ \E name \in ToggleNames : Toggle(name)
  \/ \E outcome \in {"ok", "throw"} : Export(outcome)
  \/ AddPoint
  \/ Unmount

SpecUi == InitUi /\ [][NextUi]_vars

\* The handlers that place markers on their own: "Add point", the presets
\* and the snap, from the state before an image was selected and from the
\* state after an image was loaded, with landmark arrays and marker lists
\* drawn from bounded sets.  The arrays: none, complete, short ones (14
\* entries, 1 entry) and one with entries that are not landmarks.  The
\* markers: midway between landmarks 0 and 1, nearer to landmark 28 than to
\* landmark 0, at 12 px from landmark 0, just beyond 12 px, and between
\* landmarks 13 and 14.
PlaceMeshes ==
  {EmptyMesh, Mesh(1, 468), Mesh(1, 14), Mesh(1, 1), Holed(Mesh(1, 468), {13, 280, 164})}
PlacePositions ==
  {<<Sub * 116 + 3, Sub * 110 + 3>>, <<Sub * 110, Sub * 111>>, <<Sub * 125, Sub * 105>>,
   <<Sub * 125 + 1, Sub * 105>>} \cup DragTargets
PlaceLists ==
  {<<>>} \cup {<<Marker(1, t[1], t[2])>> : t \in PlacePositions}
    \cup {<<Marker(1, Sub * 400, Sub * 300),
            [Marker(2, t[1], t[2]) EXCEPT !.product = "filler", !.dose = "0.1 mL"],
            Marker(MaxMarkers, Sub * 116 + 3, Sub * 110 + 3)>> : t \in PlacePositions}

InitPlace ==
  \/ Init
  \/ /\ Loaded
     /\ landmarks \in PlaceMeshes
     /\ points \in PlaceLists

\* snapPointToNearestLandmark(id).
CallSnap(id) ==
  /\ alive
  /\ ops < MaxOps
  /\ points' = snapPointToNearestLandmark(points, landmarks, id)
  /\ ops' = ops + 1
  /\ ev' = [Ev("snapPointToNearestLandmark") EXCEPT !.id = id]
  /\ UNCHANGED nextId
  /\ MarkerFrame

NextPlace ==
  \/ AddPoint
  \/ \E name \in PresetNames : AddPreset(name)
  \/ \E k \in 1..Len(points) : Snap(k)
  \/ \E id \in 1..(MaxMarkers + 1) : CallSnap(id)

SpecPlace == InitPlace /\ [][NextPlace]_vars

\* detectOnce on its own: an image of content 1 was selected, read and
\* decoded while createDetector was pending, and the user may have added a
\* marker before the image was decoded (at the centre of the default
\* stage).  The detector is then created, the detection runs with
\* estimateFaces outcomes of every shape, and the user adds or removes a
\* marker or leaves the page meanwhile.
DetectFaces ==
  Faces \cup
    { Face(100, Absent, Absent, Absent),
      Face(0, 468, Absent, Absent),
      Face(Absent, 14, 468, Absent),
      Face(Absent, Absent, Absent, 468),
      Face(468, 14, 14, 14) }
DetectOutcomes == Outcomes \cup {[kind |-> "faces", faces |-> <<f>>] : f \in DetectFaces}
InitDetect ==
  LET fit == fitImage(naturalWidth(1), naturalHeight(1),
                      DEFAULT_STAGE_WIDTH, DEFAULT_STAGE_HEIGHT)
  IN /\ alive = TRUE
     /\ file = [sel |-> 1, content |-> 1]
     /\ imageSrc = 1
     /\ imgEl = [id |-> 1, content |-> 1]
     /\ imageFit = [id |-> 1, width |-> fit.width, height |-> fit.height]
     /\ stageSize = fit
     /\ landmarks = EmptyMesh
     /\ detector = 0
     /\ points \in {<<>>, onAddPoint(<<>>, 0, NoFit, DefaultStage)}
     /\ reads = {}
     /\ decodes = {}
     /\ runs = {}
     /\ setup = [pc |-> "create", mounted |-> TRUE, created |-> 0, disposals |-> 0,
                 threw |-> {}, tried |-> {"create"}, sets |-> 0, lateSets |-> 0]
     /\ nextId = Len(points)
     /\ nDecode = 1
     /\ nRun = 0
     /\ ops = 0
     /\ toggles = DefaultToggles
     /\ ev = Ev("mount")
NextDetect ==
  \/ CreateDetectorDone(TRUE)
  \/ \E r \in runs, o \in DetectOutcomes : Resolve(r, o)
  \/ AddPoint
  \/ \E k \in 1..Len(points) : Remove(k)
  \/ Unmount

SpecDetect == InitDetect /\ [][NextDetect]_vars

\* fitImage on its own: applied to every image and stage size up to FitMax,
\* and to image sizes around the stage size and its multiples with the
\* default stage.
FitSides == {1, 2, 3, 799, 800, 801, 1599, 1600, 1601, 3201, 4000}
FitInputs ==
  {<<iw, ih, sw, sh>> : iw \in 1..FitMax, ih \in 1..FitMax, sw \in 1..FitMax, sh \in 1..FitMax}
    \cup {<<iw, ih, DEFAULT_STAGE_WIDTH, DEFAULT_STAGE_HEIGHT>> : iw \in FitSides, ih \in FitSides}
CallFitImage(imageWidth, imageHeight, stageW, stageH) ==
  /\ ops < MaxOps
  /\ ops' = ops + 1
  /\ ev' = [Ev("fitImage") EXCEPT
              !.data = [imageWidth |-> imageWidth, imageHeight |-> imageHeight,
                        stageW |-> stageW, stageH |-> stageH,
                        width |-> fitImage(imageWidth, imageHeight, stageW, stageH).width,
                        height |-> fitImage(imageWidth, imageHeight, stageW, stageH).height]]
  /\ UNCHANGED <<nextId, points>>
  /\ MarkerFrame
NextFit ==
  /\ ops < MaxOps
  /\ \E t \in FitInputs : CallFitImage(t[1], t[2], t[3], t[4])

SpecFit == Init /\ [][NextFit]_vars

\* perpDistanceToLine and the side labels on their own: the function is
\* applied to every point and line of a small grid, and the labels are those
\* of markers on, left and right of the midline of several landmark arrays
\* (landmarks 10 and 152, the bounding box of 14 landmarks, a single
\* landmark, none).  The function is pure: it is applied once, in the
\* initial states.
SideGrid == {Pt(x, y) : x \in 0..SideMax, y \in 0..SideMax}
SideMeshes == {EmptyMesh, Mesh(1, 468), Mesh(1, 14), Mesh(1, 1)}
SideLists ==
  {<<>>, <<Marker(1, Sub * 180, Sub * 246), Marker(2, Sub * 182, Sub * 215),
           Marker(MaxMarkers, Sub * 184, Sub * 215)>>}
InitSide ==
  /\ Loaded
  /\ landmarks \in SideMeshes
  /\ points \in SideLists
CallPerpDistanceToLine(point, a, b) ==
  /\ ev.op = "mount"
  /\ ops < MaxOps
  /\ ops' = ops + 1
  /\ ev' = [Ev("perpDistanceToLine") EXCEPT
              !.data = [point |-> point, a |-> a, b |-> b,
                        dist2 |-> perpDistanceToLine(point, a, b).dist2,
                        side |-> perpDistanceToLine(point, a, b).side]]
  /\ UNCHANGED <<nextId, points>>
  /\ MarkerFrame
NextSide ==
  \/ /\ ev.op = "mount" /\ ops < MaxOps
     /\ \E point \in SideGrid, a \in SideGrid, b \in SideGrid :
          CallPerpDistanceToLine(point, a, b)
  \/ \E k \in 1..Len(points), to \in DragTargets : Drag(k, to)

SpecSide == InitSide /\ [][NextSide]_vars

\* The reference constructs on their own: midlineEndpoints, eyeLine and
\* thirdsYs of landmark arrays of several lengths, some with entries that
\* are not landmarks, shown or hidden by the toggles.
RefLens == {0, 1, 14, 152, 153, 263, 264, 468}
RefHoles == {{}, {10}, {152}, {33}, {263}, {0, 5}}
RefMeshes == {Holed(Mesh(1, n), H) : n \in RefLens \ {1}, H \in RefHoles} \cup {Mesh(1, 1)}

InitRef ==
  /\ Loaded
  /\ landmarks \in RefMeshes
  /\ points = <<>>

NextRef == \E name \in ToggleNames : Toggle(name)

SpecRef == InitRef /\ [][NextRef]_vars

\* samplesAlong on its own: applied to every polyline of up to four of the
\* points below, whose distances are integers (3, 4, 5 and 0 for a repeated
\* point), with 0 to SampleMax samples and with the 12 samples of the
\* fibres.  The function is pure: it is applied once, in the initial state.
SamplePoints == {Pt(0, 0), Pt(3, 0), Pt(0, 4), Pt(3, 4)}
SamplePolylines ==
  {<<>>} \cup {<<p>> : p \in SamplePoints}
    \cup {<<p, q>> : p \in SamplePoints, q \in SamplePoints}
    \cup {<<p, q, r>> : p \in SamplePoints, q \in SamplePoints, r \in SamplePoints}
    \cup {<<p, q, r, u>> : p \in SamplePoints, q \in SamplePoints,
                           r \in SamplePoints, u \in SamplePoints}
SampleCounts == (0..SampleMax) \cup {12}
CallSamplesAlong(pts, n) ==
  /\ ev.op = "mount"
  /\ ops < MaxOps
  /\ ops' = ops + 1
  /\ ev' = [Ev("samplesAlong") EXCEPT
              !.data = [pts |-> pts, n |-> n, samples |-> samplesAlong(pts, n)]]
  /\ UNCHANGED <<nextId, points>>
  /\ MarkerFrame
NextSamples ==
  /\ ev.op = "mount" /\ ops < MaxOps
  /\ \E pts \in SamplePolylines, n \in SampleCounts : CallSamplesAlong(pts, n)

SpecSamples == Init /\ [][NextSamples]_vars

\* The overlays on their own: musclesToRender and vesselShapes of landmark
\* arrays drawn from a bounded set (several lengths, some with entries that
\* are not landmarks), shown or hidden by the toggles.
OverlayLens == {0, 14, 300, 400, 468, 478}
OverlayHoles == {{}, {13}, {345}, {2}, {61, 291}}
OverlayMeshes == {Holed(Mesh(1, n), H) : n \in OverlayLens, H \in OverlayHoles}

InitOverlay ==
  /\ Loaded
  /\ landmarks \in OverlayMeshes
  /\ points = <<>>

NextOverlay == \E name \in ToggleNames : Toggle(name)

SpecOverlay == InitOverlay /\ [][NextOverlay]_vars

\* ================================================================== claims

\* C1: marker identifiers are unique: in every reachable state no two
\* markers of the list have the same id.
C1_UniqueIds ==
  \A i, j \in 1..Len(points) : i # j => points[i].id # points[j].id

\* C1, witness: the list holds markers of two origins, the four default
\* markers of a detection and one added by a handler after them.
C1_Witness ==
  /\ Len(points) >= 5
  /\ ev.op \in {"addPoint", "addPreset"}
  /\ landmarks # EmptyMesh

\* C2 (as claimed): applying a detection result keeps every marker that is
\* in the list at that moment.
C2_DetectionKeepsMarkers ==
  [][ev'.op = "resolve" /\ ev'.applied
       => \A k \in 1..Len(points) : \E j \in 1..Len(points') : points'[j] = points[k]]_vars

\* C3: a run that was cancelled before its estimateFaces call resolved
\* changes neither landmarks nor the markers when the call resolves.
C3_CancelledRunIsInert ==
  [][ev'.op = "resolve" /\ ev'.cancelled
       => landmarks' = landmarks /\ points' = points /\ nextId' = nextId]_vars

\* C3, witness: the call of a cancelled run resolved to a face with a
\* non-empty mesh, in a state with no landmarks and no markers.
C3_Witness ==
  /\ ev.op = "resolve" /\ ev.cancelled /\ ev.kind = "faces" /\ ev.withMesh
  /\ landmarks = EmptyMesh
  /\ points = <<>>

\* The arrays a detection on the image of content c can put in landmarks.
MeshesOf(c) == {MeshOfFace(f, c) : f \in Faces \cup {Face(14, Absent, Absent, Absent)}}

\* C4 (as claimed): non-empty landmarks are the mesh of a detection on the
\* image element that is displayed, at the current imageFit.
C4_LandmarksOfDisplayedImage ==
  landmarks # EmptyMesh
    => /\ imgEl.id # 0
       /\ imageFit.id = imgEl.id
       /\ landmarks \in MeshesOf(imgEl.content)

\* C5: a completed, non-cancelled detection sets landmarks to the mesh of
\* the first predicted face, and to the empty list when there is no face.
C5_LandmarksReplaced ==
  ev.op = "resolve" /\ ev.applied
    => landmarks = IF Len(ev.res.faces) = 0 THEN EmptyMesh
                   ELSE MeshOfFace(ev.res.faces[1], imgEl.content)

\* C5, witness: a detection was applied over the landmarks of an earlier
\* one; and one with no face was applied.
C5_Witness ==
  /\ ev.op = "resolve" /\ ev.applied
  /\ Len(ev.res.faces) = 2
  /\ landmarks = Mesh(imgEl.content, 14)

\* Nothing asynchronous is pending and the detector set-up has finished.
Quiescent == reads = {} /\ decodes = {} /\ runs = {} /\ setup.pc \in {"done", "failed"}

\* C6 (as claimed), when nothing fails: once all the asynchronous work a
\* selection started has completed, landmarks hold the result of a detection
\* on the selected file's image.
C6_SelectionLeadsToDetection ==
  alive /\ file.sel # 0 /\ Quiescent
    => landmarks # EmptyMesh /\ landmarks \in MeshesOf(file.content)

\* C7 (as claimed): at most one file read, one image decode and one
\* estimateFaces call are pending.
C7_NoOverlap ==
  /\ Cardinality(reads) <= 1
  /\ Cardinality(decodes) <= 1
  /\ Cardinality(runs) <= 1

\* C8 (as claimed): an image decode starts only with a non-null data URL, a
\* detection run starts only with detector, imgEl and imageFit non-null, and
\* no estimateFaces call (the first of a run or a further one) is made in a
\* state where one of them is null.
C8_StagesGated ==
  [][/\ nDecode' # nDecode => imageSrc' # 0
     /\ nRun' # nRun \/ (ev'.op = "resolve" /\ ev'.retried)
          => detector' # 0 /\ imgEl'.id # 0 /\ imageFit'.id # 0]_vars

\* C9 (as claimed): a cancelled run makes no further estimateFaces call.
C9_CancelledRunStops ==
  [][\A r \in runs : \A q \in runs' :
       r.cancelled /\ q.id = r.id => q.attempt = r.attempt]_vars

\* C10: when the last estimateFaces attempt of a run throws, or an attempt
\* resolves to null or undefined, the run ends with the error logged by
\* detectOnce and changes none of landmarks, the markers and the rest of the
\* component's state.
C10_FailureLeavesState ==
  [][ev'.op = "resolve" /\ ~ev'.retried /\ ev'.kind \in {"throw", "null"}
       => /\ UNCHANGED <<landmarks, points, nextId, file, imageSrc, imgEl, imageFit,
                         stageSize, detector, alive>>
          /\ ev'.log = "detectOnce error"]_vars

\* C10, witness: a run that was not cancelled ended on a null result, in a
\* state with landmarks and markers.
C10_Witness ==
  /\ ev.op = "resolve" /\ ev.kind = "null" /\ ~ev.cancelled /\ ~ev.retried
  /\ landmarks # EmptyMesh
  /\ Len(points) > 0

\* C11: after a failed detector set-up (the backend initialisation threw, or
\* createDetector and the legacy load both threw) the detector is null, no
\* detection run was ever started or resolved, landmarks are empty and the
\* only markers are those a handler of the markers made; the step that
\* failed logged the error.
C11_SetupFailureLeavesEmptyMesh ==
  setup.pc = "failed"
    => /\ detector = 0
       /\ setup.created = 0
       /\ nRun = 0 /\ runs = {}
       /\ ev.op # "resolve"
       /\ landmarks = EmptyMesh
       /\ points # <<>> => ops > 0
       /\ ev.op \in {"setBackend", "ready", "legacyLoad"} => ev.log = "Detector setup error"

\* C11, witness: createDetector and load both threw, and an image selected
\* afterwards was read and decoded.
C11_Witness ==
  /\ setup.pc = "failed" /\ setup.threw = {"create", "legacy"}
  /\ alive /\ ev.op = "decode" /\ ev.applied
  /\ imgEl.id # 0 /\ imageFit.id = imgEl.id

\* C12: load() is called if and only if createDetector threw, neither is
\* called when the backend initialisation threw, setDetector is called at
\* most once, and never after the unmount.
C12_SetupCascade ==
  /\ "legacy" \in setup.tried <=> "create" \in setup.threw
  /\ "backend" \in setup.threw => setup.tried = {}
  /\ "legacy" \in setup.tried => "create" \in setup.tried
  /\ setup.sets <= 1
  /\ setup.lateSets = 0
  /\ detector # 0 => setup.sets = 1 /\ detector = setup.created

\* C12, witness: createDetector threw, and load() resolved after the
\* unmount: a detector was created and setDetector was not called.
C12_Witness ==
  /\ ~alive /\ ev.op = "legacyLoad" /\ ev.applied
  /\ setup.created = 2 /\ setup.sets = 0 /\ detector = 0
  /\ setup.tried = {"create", "legacy"}

\* C13: updatePointMeta(id, data) keeps the length and the order of the
\* list and every marker with another id, and gives the marker with the id
\* the values of data in the fields of data and its previous values in all
\* others (its id among them); with an id that is not in the list the list
\* is unchanged.  A drag and a refresh change only x and y of their marker, a
\* product or dose edit only that field.
C13_UpdateFrame ==
  [][LET given == IF ev'.op = "updatePointMeta" THEN DOMAIN ev'.data
                  ELSE IF ev'.op = "product" THEN {"product"}
                  ELSE IF ev'.op = "dose" THEN {"dose"}
                  ELSE {"x", "y"}
     IN ev'.op \in {"updatePointMeta", "drag", "refresh", "product", "dose"}
          => /\ Len(points') = Len(points)
             /\ \A k \in 1..Len(points) :
                  /\ points'[k].id = points[k].id
                  /\ points[k].id # ev'.id => points'[k] = points[k]
                  /\ \A f \in DOMAIN points[k] \ given : points'[k][f] = points[k][f]
                  /\ ev'.op = "updatePointMeta" /\ points[k].id = ev'.id
                       => \A f \in given : points'[k][f] = ev'.data[f]
             /\ (\A k \in 1..Len(points) : points[k].id # ev'.id) => points' = points
             /\ UNCHANGED <<landmarks, nextId>>]_vars

\* C13, witness: updatePointMeta was called with the id of the second of
\* three markers and changed it.
C13_Witness ==
  /\ ev.op = "updatePointMeta" /\ ev.id = 2 /\ "dose" \in DOMAIN ev.data
  /\ Len(points) = 3
  /\ points[2].id = 2 /\ points[2].dose # "" /\ points[1].dose = "" /\ points[3].dose = ""

\* C14: removePoint(id) leaves exactly the markers with another id,
\* unchanged and in their order, and leaves landmarks alone; with an id that
\* is not in the list (a second removal) the list is unchanged.
C14_RemoveFrame ==
  [][ev'.op \in {"removePoint", "remove"}
       => /\ points' = SelectSeq(points, LAMBDA q : q.id # ev'.id)
          /\ \A k \in 1..Len(points') : points'[k].id # ev'.id
          /\ \A k \in 1..Len(points) :
               points[k].id # ev'.id => \E j \in 1..Len(points') : points'[j] = points[k]
          /\ \A i, j \in 1..Len(points') :
               i < j => \E a, b \in 1..Len(points) :
                          a < b /\ points[a] = points'[i] /\ points[b] = points'[j]
          /\ Len(points') = Len(points)
                - Cardinality({k \in 1..Len(points) : points[k].id = ev'.id})
          /\ (\A k \in 1..Len(points) : points[k].id # ev'.id) => points' = points
          /\ UNCHANGED <<landmarks, nextId>>]_vars

\* C14, witness: the second of three markers was removed, with landmarks
\* present.
C14_Witness ==
  /\ ev.op = "removePoint" /\ ev.id = 2
  /\ Len(points) = 2 /\ points[1].id = 1 /\ points[2].id = 3
  /\ landmarks # EmptyMesh

C16_ExportReadOnly ==
  [][ev'.op = "export"
       => /\ UNCHANGED <<alive, file, imageSrc, imgEl, imageFit, stageSize, landmarks,
                         detector, points, reads, decodes, runs, setup, nextId, nDecode,
                         nRun, ops, toggles>>
          /\ ev'.log = IF ~alive THEN ""
                       ELSE IF ev'.kind = "throw" THEN "alert" ELSE "download"]_vars

\* C16, witness: toDataURL threw in a state with an image, landmarks,
\* markers and a changed toggle.
C16_Witness ==
  /\ ev.op = "export" /\ ev.kind = "throw" /\ ev.log = "alert"
  /\ imgEl.id # 0 /\ landmarks # EmptyMesh /\ Len(points) > 0
  /\ toggles.showVessels

\* C17: an image decode that completes, with onload or onerror, after the
\* data URL changed or after the unmount (the "mounted" flag of its effect
\* is cleared) changes none of imgEl, imageFit and the stage size.
C17_StaleDecodeIsInert ==
  [][ev'.op = "decode" /\ ev'.cancelled
       => UNCHANGED <<imgEl, imageFit, stageSize, landmarks, points>>]_vars

\* C17, witness: the decode of an older data URL completed while the image
\* of a newer one was displayed.
C17_Witness ==
  /\ ev.op = "decode" /\ ev.cancelled /\ alive
  /\ imgEl.id > ev.id
  /\ imageFit.id = imgEl.id
  /\ stageSize = [width |-> imageFit.width, height |-> imageFit.height]

\* C18 (as claimed), when nothing fails: once no file read and no image
\* decode is pending, the data URL and the displayed image are those of the
\* file selected last.
C18_LastSelectionWins ==
  alive /\ file.sel # 0 /\ reads = {} /\ decodes = {}
    => imageSrc = file.content /\ imgEl.id # 0 /\ imgEl.content = file.content

\* C19: the onChange handler with a file records the file, empties the
\* marker list and landmarks and sets imageFit to null in one step, in which
\* the read of the file is started and not finished (the data URL and the
\* image element are still the previous ones); an onChange without a file
\* changes nothing.
C19_SelectResets ==
  [][/\ ev'.op = "select"
          => /\ file'.sel = file.sel + 1 /\ file'.content \in Contents
             /\ points' = <<>>
             /\ landmarks' = EmptyMesh
             /\ imageFit' = NoFit
             /\ [id |-> file'.sel, content |-> file'.content] \in reads'
             /\ UNCHANGED <<imageSrc, imgEl, nextId, toggles, detector>>
     /\ ev'.op = "selectNone"
          => UNCHANGED <<alive, file, imageSrc, imgEl, imageFit, stageSize, landmarks,
                         detector, points, reads, decodes, runs, setup, nextId, nDecode,
                         nRun, ops, toggles>>]_vars

\* C19, witness: a file was selected in a state with markers, landmarks
\* and an imageFit.
C19_Witness ==
  /\ ev.op = "select" /\ ev.id > 0 /\ ev.withMesh
  /\ file.sel > 1 /\ imgEl.id # 0
  /\ points = <<>> /\ landmarks = EmptyMesh /\ imageFit = NoFit

C22_PresetAppendsFour ==
  [][ev'.op = "addPreset"
       => /\ Len(points') = Len(points) + 4
          /\ SubSeq(points', 1, Len(points)) = points
          /\ \A k \in (Len(points) + 1)..Len(points') :
               /\ points'[k].product = "" /\ points'[k].dose = ""
               /\ \A j \in 1..Len(points') : j # k => points'[j].id # points'[k].id
          /\ UNCHANGED landmarks]_vars

\* C22, witness: a preset was added to a list of three markers with
\* landmarks that lack some of the indices of every template.
C22_Witness ==
  /\ ev.op = "addPreset"
  /\ Len(points) = MaxMarkers + 4
  /\ landmarks = Holed(Mesh(1, 468), {13, 280, 164})
  /\ points[2].product = "filler"

\* C23: with landmarks, the k-th marker addPreset appends is at the
\* landmark of the k-th index of the template when that landmark exists;
\* when it does not, the marker is at the centre x of the midline - 12 px
\* (k odd) or + 12 px (k even) on the first thirds line (k <= 2) or the
\* second, or, without midline or thirds, on the centre row of the stage at
\* centre x + (k - 2) * 10 px.  Without landmarks the four markers are at
\* (-30, -25), (-18, -15), (-6, -5), (6, 5) px from the stage centre, for
\* every preset.
C23_PresetPlacement ==
  [][ev'.op = "addPreset"
       => LET idx == IF ev'.kind = "lips" THEN <<13, 14, 78, 308>>
                     ELSE IF ev'.kind = "nasolabial" THEN <<50, 280, 146, 376>>
                     ELSE <<57, 287, 164, 393>>
              new == [k \in 1..4 |-> points'[Len(points) + k]]
              offs == <<<<0 - 30, 0 - 25>>, <<0 - 18, 0 - 15>>, <<0 - 6, 0 - 5>>, <<6, 5>>>>
              cx == (stageSize.width * Sub) \div 2
              cy == (stageSize.height * Sub) \div 2
              mid == midlineEndpoints(landmarks)
              thirds == thirdsYs(landmarks)
          IN /\ ev'.kind \in PresetNames
             /\ Len(points') = Len(points) + 4
             /\ \A k \in 1..4 :
                  IF landmarks = EmptyMesh
                    THEN new[k].x = cx + offs[k][1] * Sub /\ new[k].y = cy + offs[k][2] * Sub
                  ELSE IF Has(landmarks, idx[k])
                    THEN <<new[k].x, new[k].y>> = At(landmarks, idx[k])
                  ELSE IF mid.ok /\ thirds.ok
                    THEN /\ new[k].x = (mid.a.x + mid.b.x) \div 2
                                          + (IF k % 2 = 1 THEN 0 - 12 ELSE 12) * Sub
                         /\ new[k].y = IF k <= 2 THEN thirds.y1 ELSE thirds.y2
                  ELSE new[k].x = cx + (k - 2) * 10 * Sub /\ new[k].y = cy]_vars

\* C23, witness: the nasolabial preset was added with landmarks that lack
\* its second index only: the second marker is at the fallback position,
\* the others are at their landmarks.
C23_Witness ==
  /\ ev.op = "addPreset" /\ ev.kind = "nasolabial"
  /\ landmarks = Holed(Mesh(1, 468), {13, 280, 164})
  /\ Len(points) = 4
  /\ <<points[1].x, points[1].y>> = At(landmarks, 50)
  /\ <<points[2].x, points[2].y>> # At(landmarks, 280)
  /\ points[2].y = thirdsYs(landmarks).y1
  /\ <<points[3].x, points[3].y>> = At(landmarks, 146)

\* C24: onAddPoint appends one marker whose id no existing marker has, with
\* empty product and dose, at half the width and half the height of
\* imageFit when it is not null and of the stage otherwise, which is within
\* the stage; the existing markers keep their positions and fields and the
\* landmarks are unchanged.
C24_AddPointAtCentre ==
  [][ev'.op = "addPoint"
       => LET w == IF imageFit.id # 0 THEN imageFit.width ELSE stageSize.width
              h == IF imageFit.id # 0 THEN imageFit.height ELSE stageSize.height
              new == points'[Len(points')]
          IN /\ Len(points') = Len(points) + 1
             /\ SubSeq(points', 1, Len(points)) = points
             /\ \A k \in 1..Len(points) : points[k].id # new.id
             /\ new.product = "" /\ new.dose = ""
             /\ 2 * new.x = w * Sub /\ 2 * new.y = h * Sub
             /\ 0 <= new.x /\ new.x <= stageSize.width * Sub
             /\ 0 <= new.y /\ new.y <= stageSize.height * Sub
             /\ UNCHANGED <<landmarks, imageFit, stageSize>>]_vars

\* C24, witness: a marker was added to a list of MaxMarkers markers over a
\* fitted image with landmarks.
C24_Witness ==
  /\ ev.op = "addPoint" /\ imageFit.id # 0 /\ landmarks # EmptyMesh
  /\ Len(points) = MaxMarkers + 1
  /\ 2 * points[Len(points)].x = imageFit.width * Sub
  /\ points[2].product = "filler"

\* C25: snapPointToNearestLandmark(id) moves the marker with that id to the
\* landmark at the smallest distance among the landmarks at 12 px or less,
\* the one of lowest index when several are at that distance; when no
\* landmark is within 12 px, when no marker has the id or when there are no
\* landmarks, the list is unchanged.  Ids, products, doses, the other
\* markers and the landmarks never change.
C25_SnapToNearest ==
  [][ev'.op \in {"snap", "snapPointToNearestLandmark"}
       => /\ Len(points') = Len(points)
          /\ UNCHANGED landmarks
          /\ \A k \in 1..Len(points) :
               LET d2(i) == (At(landmarks, i)[1] - points[k].x) * (At(landmarks, i)[1] - points[k].x)
                              + (At(landmarks, i)[2] - points[k].y) * (At(landmarks, i)[2] - points[k].y)
                   near == {i \in 0..(Length(landmarks) - 1) :
                              Has(landmarks, i) /\ d2(i) <= (12 * Sub) * (12 * Sub)}
               IN /\ points'[k].id = points[k].id
                  /\ points'[k].product = points[k].product
                  /\ points'[k].dose = points[k].dose
                  /\ IF points[k].id # ev'.id \/ near = {}
                       THEN points'[k] = points[k]
                       ELSE \E i \in near :
                              /\ \A j \in near : d2(i) < d2(j) \/ (d2(i) = d2(j) /\ i <= j)
                              /\ <<points'[k].x, points'[k].y>> = At(landmarks, i)]_vars

\* C25, witness: the second of three markers, with product and dose, was
\* snapped to landmark 13; the other two markers are where they were.
C25_Witness ==
  /\ ev.op = "snapPointToNearestLandmark" /\ ev.id = 2
  /\ Len(points) = MaxMarkers /\ landmarks = Mesh(1, 468)
  /\ <<points[2].x, points[2].y>> = At(landmarks, 13)
  /\ points[2].product = "filler" /\ points[2].dose = "0.1 mL"
  /\ points[1] = Marker(1, Sub * 400, Sub * 300)
  /\ points[MaxMarkers] = Marker(MaxMarkers, Sub * 116 + 3, Sub * 110 + 3)

\* C26: snapping is idempotent: after a snap of a marker, a second snap of
\* the same marker leaves the list as it is.
C26_SnapIdempotent ==
  ev.op \in {"snap", "snapPointToNearestLandmark"}
    => snapPointToNearestLandmark(points, landmarks, ev.id) = points

\* C26, witness: a marker was snapped to landmark 0, which has another
\* landmark (28) within 12 px of it.
C26_Witness ==
  /\ ev.op = "snap" /\ Len(points) = 1 /\ landmarks = Mesh(1, 468)
  /\ <<points[1].x, points[1].y>> = At(landmarks, 0)
  /\ 0 < snapD2(landmarks, points[1], 28)
  /\ snapD2(landmarks, points[1], 28) <= (SnapRadius * Sub) * (SnapRadius * Sub)

\* C21: when a detection is applied whose mesh is not empty and the marker
\* list is empty, the list becomes one marker for each of the indices 13,
\* 14, 78, 308 that the mesh has, in that order, at the landmark, with empty
\* product and dose; when the mesh is empty the marker list is unchanged.
C21_AutoPopulation ==
  [][ev'.op = "resolve" /\ ev'.applied
       => LET mesh == landmarks'
              present == SelectSeq(<<13, 14, 78, 308>>, LAMBDA i : Has(mesh, i))
          IN /\ Length(mesh) > 0 /\ points = <<>>
                  => /\ Len(points') = Len(present)
                     /\ \A k \in 1..Len(present) :
                          /\ <<points'[k].x, points'[k].y>> = At(mesh, present[k])
                          /\ points'[k].product = "" /\ points'[k].dose = ""
             /\ Length(mesh) = 0 => points' = points]_vars

\* C27: the first call form is estimateFaces(canvas); when call form k of a
\* run ends, call form k + 1 is made exactly when k < 3 and the call threw;
\* otherwise the run makes no further call, and a result that is not a
\* throw and not null is the one detectOnce goes on with, unless cancelled.
C27_CallFormOrder ==
  [][ev'.op = "resolve"
       => LET r == CHOOSE q \in runs : q.id = ev'.run
              later == {q \in runs' : q.id = ev'.run}
          IN /\ \A q \in runs' \ runs : q.id # ev'.run => q.attempt = 1
             /\ r.attempt = ev'.id /\ ev'.id \in 1..3
             /\ IF ev'.kind = "throw" /\ ev'.id < 3
                  THEN /\ later = {[r EXCEPT !.attempt = ev'.id + 1]}
                       /\ ev'.retried /\ ~ev'.applied
                       /\ UNCHANGED <<landmarks, points>>
                  ELSE /\ later = {} /\ ~ev'.retried
                       /\ ev'.applied <=> (ev'.kind = "faces" /\ ~r.cancelled)
                       /\ ev'.applied
                            => /\ ev'.res.kind = "faces"
                               /\ landmarks' = IF ev'.res.faces = <<>> THEN EmptyMesh
                                                ELSE MeshOfFace(ev'.res.faces[1], r.img.content)
                       /\ ~ev'.applied => UNCHANGED <<landmarks, points>>]_vars

\* C27, witness: the first call form threw, the second resolved to a face
\* and its mesh was applied.
C27_Witness ==
  /\ ev.op = "resolve" /\ ev.id = 2 /\ ev.applied /\ ev.withMesh
  /\ landmarks = MeshOfFace(ev.res.faces[1], 1) /\ landmarks # EmptyMesh
  /\ runs = {}

\* C28: the mesh of the first prediction is its scaledMesh when that is an
\* array, else its mesh, else its keypoints, else its keypoints3D; when it
\* has none of them the mesh is empty.  The landmarks become that mesh, and
\* with an empty mesh the marker list is unchanged.
C28_MeshPrecedence ==
  [][ev'.op = "resolve" /\ ev'.applied /\ ev'.res.faces # <<>>
       => LET face == ev'.res.faces[1]
              img == (CHOOSE q \in runs : q.id = ev'.run).img.content
          IN /\ landmarks' =
                  IF face.scaledMesh # Absent THEN Mesh(img, face.scaledMesh)
                  ELSE IF face.mesh # Absent THEN Mesh(img + 10, face.mesh)
                  ELSE IF face.keypoints # Absent THEN Mesh(img + 20, face.keypoints)
                  ELSE IF face.keypoints3D # Absent THEN Mesh(img + 30, face.keypoints3D)
                  ELSE EmptyMesh
             /\ landmarks' = EmptyMesh => points' = points]_vars

\* C28, witness: a prediction with keypoints and keypoints3D only was
\* applied to an empty marker list: the landmarks are its keypoints.
C28_Witness ==
  /\ ev.op = "resolve" /\ ev.applied
  /\ ev.res.faces = <<Face(Absent, Absent, 468, 14)>>
  /\ landmarks = Mesh(21, 468)
  /\ Len(points) = 4 /\ <<points[1].x, points[1].y>> = At(landmarks, 13)

\* C29: for positive integers imageWidth, imageHeight, stageW, stageH the
\* result of fitImage has width <= stageW and height <= stageH, and either
\* width = stageW and height is an integer nearest to
\* stageW * imageHeight / imageWidth, or height = stageH and width is an
\* integer nearest to stageH * imageWidth / imageHeight.
C29_FitInsideStage ==
  ev.op = "fitImage"
    => LET d == ev.data
           nearest(v, num, den) == 2 * den * v - 2 * num <= den /\ 2 * num - 2 * den * v <= den
       IN /\ d.width <= d.stageW /\ d.height <= d.stageH
          /\ \/ d.width = d.stageW /\ nearest(d.height, d.stageW * d.imageHeight, d.imageWidth)
             \/ d.height = d.stageH /\ nearest(d.width, d.stageH * d.imageWidth, d.imageHeight)

\* C29, witness: a 3 x 2 image was fitted into a 4 x 4 stage: the width is
\* the stage's and the height 8 / 3 is rounded to 3.
C29_Witness ==
  /\ ev.op = "fitImage"
  /\ ev.data = [imageWidth |-> 3, imageHeight |-> 2, stageW |-> 4, stageH |-> 4,
                width |-> 4, height |-> 3]

\* C30: for every positive-integer image size fitted into the 800 x 800
\* default stage, the width and the height of the result are at least 1.
C30_NoZeroDimension ==
  ev.op = "fitImage" /\ ev.data.stageW = DEFAULT_STAGE_WIDTH
                     /\ ev.data.stageH = DEFAULT_STAGE_HEIGHT
    => ev.data.width >= 1 /\ ev.data.height >= 1

C33_NoDetectorLeak ==
  ~alive /\ setup.pc = "done" /\ setup.created # 0 => setup.disposals >= 1

\* C34: dispose is called at most once on the detector, and not while the
\* component is mounted; it is called only on a detector that was made.
C34_DisposeOnceAfterUnmount ==
  /\ setup.disposals <= 1
  /\ alive => setup.disposals = 0
  /\ setup.disposals = 1 => setup.created # 0

\* C34, witness: createDetector resolved after the unmount and setup()
\* disposed the detector, which the clean-up had not seen.
C34_Witness ==
  /\ ~alive /\ ev.op = "createDetector" /\ ev.applied
  /\ setup.created = 1 /\ setup.disposals = 1 /\ setup.sets = 0

\* C35: when the FileReader of a mounted component reports an error, the
\* data URL is null afterwards, no image is displayed, imageFit is null and
\* the stage is 800 x 800; the markers and the landmarks are unchanged, and
\* the error is logged by the handler.
C35_ReadFailureIsLocal ==
  [][ev'.op = "read" /\ ~ev'.applied /\ alive
       => /\ imageSrc' = 0
          /\ imgEl' = NoImg /\ imageFit' = NoFit
          /\ stageSize' = [width |-> 800, height |-> 800]
          /\ UNCHANGED <<points, landmarks, nextId, alive, detector>>
          /\ ev'.log = "FileReader error"]_vars

\* C35, witness: a read failed while an image was displayed with landmarks
\* and markers: the image is cleared, landmarks and markers are kept.
C35_Witness ==
  /\ ev.op = "read" /\ ~ev.applied /\ alive
  /\ imageSrc = 0 /\ imgEl = NoImg /\ imageFit = NoFit /\ stageSize = DefaultStage
  /\ landmarks # EmptyMesh /\ Len(points) > 0

\* C36: samplesAlong(pts, n) returns n samples when pts has two points or
\* more and a positive total length, and none otherwise; the segment index
\* of every sample is one of the segments of pts, its interpolation
\* parameter is between 0 and 1 and the sample is the point of the segment
\* at that parameter; the arc lengths of the samples increase.
C36_SamplesOnPolyline ==
  ev.op = "samplesAlong"
    => LET pts == ev.data.pts
           n == ev.data.n
           out == ev.data.samples
           lens == segLensOf(pts)
           arc(k) == SumTo(lens, out[k].segIdx) * 2 * n
                       + (out[k].num * lens[out[k].segIdx + 1] * 2 * n) \div out[k].den
       IN /\ Len(out) = IF Len(pts) >= 2 /\ (\E i \in 1..(Len(pts) - 1) : pts[i] # pts[i + 1])
                           THEN n ELSE 0
          /\ \A k \in 1..Len(out) :
               /\ out[k].segIdx \in 0..(Len(pts) - 2)
               /\ out[k].den > 0 /\ 0 <= out[k].num /\ out[k].num <= out[k].den
               /\ out[k].x = pts[out[k].segIdx + 1].x * out[k].den
                               + (pts[out[k].segIdx + 2].x - pts[out[k].segIdx + 1].x) * out[k].num
               /\ out[k].y = pts[out[k].segIdx + 1].y * out[k].den
                               + (pts[out[k].segIdx + 2].y - pts[out[k].segIdx + 1].y) * out[k].num
          /\ \A k \in 1..(Len(out) - 1) :
               /\ out[k].segIdx <= out[k + 1].segIdx
               /\ arc(k) < arc(k + 1)

\* C36, witness: three samples along a polyline of four points whose
\* second segment has length 0; the samples are on the first and the last
\* segment.
C36_Witness ==
  /\ ev.op = "samplesAlong"
  /\ ev.data.pts = <<Pt(0, 0), Pt(3, 0), Pt(3, 0), Pt(3, 4)>>
  /\ ev.data.n = 3 /\ Len(ev.data.samples) = 3
  /\ ev.data.samples[1].segIdx = 0 /\ ev.data.samples[3].segIdx = 2

====
